---- MODULE Spec2Model ----
(***************************************************************************)
(* TS-map estimation of gammapy (gammapy/detect/test_statistics.py):       *)
(* TSMapEstimator (construction, mask_default, flux_default, run with its  *)
(* worker pool) and the per-pixel evaluator _ts_value with its three       *)
(* amplitude solvers and two error estimators.                             *)
(*                                                                         *)
(* Numbers.  A float is a record [k, v]: k = "fin" with v an integer count *)
(* of 1/Q, or one of the IEEE specials "nan" and "inf" (v = +1 / -1).      *)
(* Values of the Cash statistic (c_0, c_1, ts, threshold) are counted in   *)
(* 1/(64*Q).    Python's None is the record None.  FLUX_FACTOR (1e-12 in   *)
(* the source) is kept as a genuine rescaling, 1/FLUX_FACTOR_DEN, with     *)
(* exposures of the order of FLUX_FACTOR_DEN instead of 1e12: every        *)
(* "* FLUX_FACTOR" and "/ FLUX_FACTOR" of the source is a division or a    *)
(* multiplication here.  Amplitudes live on the grid of multiples of       *)
(* FLUX_FACTOR_DEN/Q so that flux = amplitude * FLUX_FACTOR is exact.      *)
(***************************************************************************)
EXTENDS Integers, Sequences, FiniteSets, Bags, TLC

Q == 16

FLUX_FACTOR_DEN == 4

MAX_NITER == 20

\* RTOL = 1e-3, in units of 1/1000
RTOL == 1

Num(v) == [k |-> "fin", v |-> v]

NaN == [k |-> "nan", v |-> 0]

PosInf == [k |-> "inf", v |-> 1]

NegInf == [k |-> "inf", v |-> -1]

None == [k |-> "none", v |-> 0]

IsFin(x) == x.k = "fin"

IsNaN(x) == x.k = "nan"

Abs(i) == IF i < 0 THEN -i ELSE i

Sgn(i) == IF i > 0 THEN 1 ELSE IF i < 0 THEN -1 ELSE 0

Max2(i, j) == IF i >= j THEN i ELSE j

Min2(i, j) == IF i <= j THEN i ELSE j

\* a / b rounded to the nearest integer, halves away from zero (b > 0)
RoundDiv(a, b) == Sgn(a) * ((2 * Abs(a) + b) \div (2 * b))

\* IEEE arithmetic on the records
XNeg(x) ==
  IF x.k = "nan" THEN NaN
  ELSE IF x.k = "inf" THEN [k |-> "inf", v |-> -x.v]
  ELSE Num(-x.v)

XAdd(x, y) ==
  IF x.k = "nan" \/ y.k = "nan" THEN NaN
  ELSE IF x.k = "inf" /\ y.k = "inf" THEN (IF x.v = y.v THEN x ELSE NaN)
  ELSE IF x.k = "inf" THEN x
  ELSE IF y.k = "inf" THEN y
  ELSE Num(x.v + y.v)

XSub(x, y) == XAdd(x, XNeg(y))

\* x * i for an exact integer i
XScale(x, i) ==
  IF x.k = "nan" THEN NaN
  ELSE IF x.k = "inf" THEN (IF i = 0 THEN NaN ELSE [k |-> "inf", v |-> x.v * Sgn(i)])
  ELSE Num(x.v * i)

\* (a / b) counted in 1/s, a and b counted in the same unit
XQuot(a, b, s) ==
  IF a.k = "nan" \/ b.k = "nan" THEN NaN
  ELSE IF a.k = "inf" THEN
    (IF b.k = "inf" THEN NaN
     ELSE [k |-> "inf", v |-> IF b.v < 0 THEN -a.v ELSE a.v])
  ELSE IF b.k = "inf" THEN Num(0)
  ELSE IF b.v = 0 THEN
    (IF a.v > 0 THEN PosInf ELSE IF a.v < 0 THEN NegInf ELSE NaN)
  ELSE Num(Sgn(a.v) * Sgn(b.v) * RoundDiv(Abs(a.v) * s, Abs(b.v)))

\* x < y as numpy and Python compare floats (FALSE when a NaN is involved)
XLt(x, y) ==
  IF x.k = "nan" \/ y.k = "nan" THEN FALSE
  ELSE IF x.k = "inf" THEN (x.v = -1 /\ ~(y.k = "inf" /\ y.v = -1))
  ELSE IF y.k = "inf" THEN y.v = 1
  ELSE x.v < y.v

\* Python's max(x, y): x unless y > x
PyMax(x, y) == IF XLt(x, y) THEN y ELSE x

\* numpy.sign as an integer factor; NaN for NaN
XSignTimes(d, a) ==
  IF a.k = "nan" THEN NaN
  ELSE IF a.k = "inf" THEN XScale(d, a.v)
  ELSE XScale(d, Sgn(a.v))

RECURSIVE XSum(_, _)
XSum(f, S) ==
  IF S = {} THEN Num(0)
  ELSE LET c == CHOOSE c \in S : TRUE
       IN XAdd(f[c], XSum(f, S \ {c}))

RECURSIVE ISum(_, _)
ISum(f, S) ==
  IF S = {} THEN 0
  ELSE LET c == CHOOSE c \in S : TRUE
       IN f[c] + ISum(f, S \ {c})

LnTable ==
  << -2839, -2129, -1714, -1420, -1191, -1004, -847, -710, -589, -481, -384, -295,
     -213, -137, -66, 0, 62, 121, 176, 228, 278, 326, 372, 415,
     457, 497, 536, 573, 609, 644, 677, 710, 741, 772, 802, 830,
     858, 886, 912, 938, 964, 988, 1012, 1036, 1059, 1081, 1103, 1125,
     1146, 1167, 1187, 1207, 1226, 1246, 1264, 1283, 1301, 1319, 1336, 1353,
     1370, 1387, 1403, 1420, 1435, 1451, 1466, 1482, 1497, 1511, 1526, 1540,
     1554, 1568, 1582, 1596, 1609, 1622, 1635, 1648, 1661, 1673, 1686, 1698,
     1710, 1722, 1734, 1746, 1757, 1769, 1780, 1791, 1802, 1813, 1824, 1835,
     1845, 1856, 1866, 1877, 1887, 1897, 1907, 1917, 1927, 1936, 1946, 1955,
     1965, 1974, 1983, 1993, 2002, 2011, 2020, 2029, 2037, 2046, 2055, 2063,
     2072, 2080, 2089, 2097, 2105, 2113, 2121, 2129, 2137, 2145, 2153, 2161,
     2169, 2176, 2184, 2191, 2199, 2206, 2214, 2221, 2228, 2236, 2243, 2250,
     2257, 2264, 2271, 2278, 2285, 2292, 2299, 2305, 2312, 2319, 2325, 2332,
     2338, 2345, 2351, 2358, 2364, 2371, 2377, 2383, 2389, 2396, 2402, 2408,
     2414, 2420, 2426, 2432, 2438, 2444, 2450, 2455, 2461, 2467, 2473, 2478,
     2484, 2490, 2495, 2501, 2507, 2512, 2518, 2523, 2528, 2534, 2539, 2545,
     2550, 2555, 2560, 2566, 2571, 2576, 2581, 2586, 2591, 2597, 2602, 2607,
     2612, 2617, 2622, 2627, 2631, 2636, 2641, 2646, 2651, 2656, 2660, 2665,
     2670, 2675, 2679, 2684, 2689, 2693, 2698, 2702, 2707, 2711, 2716, 2721,
     2725, 2729, 2734, 2738, 2743, 2747, 2751, 2756, 2760, 2764, 2769, 2773,
     2777, 2782, 2786, 2790, 2794, 2798, 2802, 2807, 2811, 2815, 2819, 2823,
     2827, 2831, 2835, 2839 >>

\* ln 2 = ln(2*Q/Q)
LN2 == LnTable[2 * Q]

\* 64*Q*ln(i/Q) for an integer i >= 1
RECURSIVE Ln(_)
Ln(i) == IF i <= Len(LnTable) THEN LnTable[i] ELSE Ln(i \div 2) + LN2


(***************************************************************************)
(* Arrays: [h, w, d] with d a function on (0..h-1) \X (0..w-1), indexed    *)
(* <<row, column>> as numpy does.                                          *)
(***************************************************************************)
Cells(a) == (0 .. a.h - 1) \X (0 .. a.w - 1)

SameShape(a, b) == a.h = b.h /\ a.w = b.w

\* a Python slice lo:hi of an axis of length n: first index and length
PySlice(lo, hi, n) ==
  LET l == IF lo < 0 THEN Max2(lo + n, 0) ELSE Min2(lo, n)
      u == IF hi < 0 THEN Max2(hi + n, 0) ELSE Min2(hi, n)
  IN [lo |-> l, len |-> Max2(u - l, 0)]

\* a mutation of _extract_array whose upper ends stop one short
_extract_array_short(array, shape, position) ==
  LET x_width == shape[2] \div 2
      y_width == shape[1] \div 2
      y_lo == position[1] - y_width
      y_hi == position[1] + y_width
      x_lo == position[2] - x_width
      x_hi == position[2] + x_width
      ys == PySlice(y_lo, y_hi, array.h)
      xs == PySlice(x_lo, x_hi, array.w)
  IN [h |-> ys.len, w |-> xs.len,
      d |-> [c \in (0 .. ys.len - 1) \X (0 .. xs.len - 1) |->
               array.d[<<ys.lo + c[1], xs.lo + c[2]>>]]]

_extract_array(array, shape, position) ==
  LET x_width == shape[2] \div 2
      y_width == shape[1] \div 2
      y_lo == position[1] - y_width
      y_hi == position[1] + y_width + 1
      x_lo == position[2] - x_width
      x_hi == position[2] + x_width + 1
      ys == PySlice(y_lo, y_hi, array.h)
      xs == PySlice(x_lo, x_hi, array.w)
  IN [h |-> ys.len, w |-> xs.len,
      d |-> [c \in (0 .. ys.len - 1) \X (0 .. xs.len - 1) |->
               array.d[<<ys.lo + c[1], xs.lo + c[2]>>]]]

(***************************************************************************)
(* The Cython kernels of _test_statistics_cython.                          *)
(***************************************************************************)
\* one term  model - counts*log(model)  of the Cash statistic, in 1/(64*Q)
CashTerm(n, p) ==
  IF p.k # "fin" THEN NaN
  ELSE IF p.v > 0 THEN Num(64 * p.v - n * Ln(p.v))
  ELSE IF p.v = 0 /\ n > 0 THEN PosInf
  ELSE NaN

\* background + x * FLUX_FACTOR * model for one pixel
Predicted(x, b, m) == XAdd(Num(Q * b), XQuot(XScale(x, m), Num(FLUX_FACTOR_DEN), 1))

_cash_cython(counts, background) ==
  [h |-> counts.h, w |-> counts.w,
   d |-> [c \in Cells(counts) |->
            XScale(CashTerm(counts.d[c], Num(Q * background.d[c])), 2)]]

_cash_sum_cython(counts, model) ==
  XScale(XSum([c \in Cells(counts) |-> CashTerm(counts.d[c], model.d[c])], Cells(counts)), 2)

f_cash(x, counts, background, model) ==
  _cash_sum_cython(counts,
    [h |-> counts.h, w |-> counts.w,
     d |-> [c \in Cells(counts) |-> Predicted(x, background.d[c], model.d[c])]])

\* sum of model * (counts / (background + x*FLUX_FACTOR*model) - 1), in 1/64
_f_cash_root_cython(x, counts, background, model) ==
  XSum([c \in Cells(counts) |->
          XScale(XAdd(XQuot(Num(Q * counts.d[c]),
                            Predicted(x, background.d[c], model.d[c]), 64),
                      Num(-64)),
                 model.d[c])],
       Cells(counts))

\* row-major scan order of the pixels of a window
ScanIndex(a, c) == c[1] * a.w + c[2]

FloorGrid(v) == FLUX_FACTOR_DEN * (v \div FLUX_FACTOR_DEN)

CeilGrid(v) == -FloorGrid(-v)

\* the amplitude standing for "no bound" (1e14 / FLUX_FACTOR in the kernels)
Huge == 2 ^ 20

_amplitude_bounds_cython(counts, background, model) ==
  LET S == Cells(counts)
      s_model == ISum([c \in S |-> model.d[c]], S)
      s_counts == ISum([c \in S |-> counts.d[c]], S)
      T == {c \in S : model.d[c] > 0}
      P == {c \in T : counts.d[c] > 0}
      Less(c1, c2) == background.d[c1] * model.d[c2] < background.d[c2] * model.d[c1]
      ArgMin(R) == CHOOSE c \in R :
                     /\ \A o \in R : ~Less(o, c)
                     /\ \A o \in R : ~Less(c, o) => ScanIndex(counts, c) <= ScanIndex(counts, o)
      t == ArgMin(T)
      p == ArgMin(P)
      c_min == counts.d[p]
      den == s_model * model.d[p]
      amplitude_min_total ==
        IF T = {} THEN Num(-Huge)
        ELSE Num(-FloorGrid((Q * FLUX_FACTOR_DEN * background.d[t]) \div model.d[t]))
  IN IF P = {} \/ s_model <= 0
       THEN [amplitude_min |-> Num(-Huge), amplitude_max |-> Num(-Huge),
             amplitude_min_total |-> amplitude_min_total]
       ELSE [amplitude_min |->
               Num(FloorGrid((Q * FLUX_FACTOR_DEN
                     * (c_min * model.d[p] - background.d[p] * s_model)) \div den)),
             amplitude_max |->
               Num(CeilGrid(-((-(Q * FLUX_FACTOR_DEN
                     * (s_counts * model.d[p] - background.d[p] * s_model))) \div den))),
             amplitude_min_total |-> amplitude_min_total]

\* weighted least squares estimate of the flux; weights in 1/Q
_x_best_leastsq(counts, background, model, weights) ==
  LET S == Cells(counts)
      num == XSum([c \in S |->
                XQuot(Num((counts.d[c] - background.d[c]) * model.d[c] * Q),
                      weights.d[c], 64)], S)
      den == XSum([c \in S |->
                XQuot(Num(model.d[c] * model.d[c] * Q), weights.d[c], 64)], S)
  IN XQuot(num, den, Q)


(***************************************************************************)
(* scipy.optimize root finders, on the amplitude grid.  A result is        *)
(* [status, root, iterations]; status names the exception raised, if any.  *)
(***************************************************************************)
XSg(x) == IF x.k = "inf" THEN x.v ELSE Sgn(x.v)

\* |x| <= |y| for values that are not NaN
AbsLeq(x, y) == y.k = "inf" \/ (x.k = "fin" /\ Abs(x.v) <= Abs(y.v))

RoundGrid(v) == FLUX_FACTOR_DEN * RoundDiv(v, FLUX_FACTOR_DEN)

\* a * b / c without leaving 32 bits (c > 0)
MulDiv(a, b, c) ==
  LET s == Sgn(a) * Sgn(b)
      q == Abs(a) \div c
      r == Abs(a) % c
  IN s * (q * Abs(b) + RoundDiv(r * Abs(b), c))

Failed(e) == [status |-> e, root |-> NaN, iterations |-> 0]

\* ts_diff of _compute_flux_err_conf, a closure over c_1 and error_sigma
ts_diff(x, counts, background, model, c_1, error_sigma) ==
  XSub(XAdd(c_1, Num(error_sigma * error_sigma * 64 * Q)),
       f_cash(x, counts, background, model))

\* f(x, *args) for the functions handed to the root finders: f names the
\* function and carries what it closes over, args is (counts, background, model)
Call(f, x, args) ==
  IF f.name = "ts_diff"
    THEN ts_diff(x, args[1], args[2], args[3], f.c_1, f.error_sigma)
  ELSE _f_cash_root_cython(x, args[1], args[2], args[3])

\* the loop of brentq: one pass per iteration, by bisection of the bracket
RECURSIVE BrentLoop(_, _, _, _, _, _, _, _, _)
BrentLoop(f, args, lo, flo, hi, fhi, it, maxiter, rtol) ==
  IF it = maxiter THEN Failed("RuntimeError")
  ELSE
    LET best == IF AbsLeq(fhi, flo) THEN hi ELSE lo
        mid == RoundGrid((lo + hi) \div 2)
        fmid == Call(f, Num(mid), args)
    IN IF \/ hi - lo <= FLUX_FACTOR_DEN
          \/ hi - lo <= (rtol * Abs(best) - 1) \div 1000
          \/ mid <= lo \/ mid >= hi
         THEN [status |-> "ok", root |-> Num(best), iterations |-> it + 1]
       ELSE IF IsNaN(fmid) THEN Failed("RuntimeError")
       ELSE IF XSg(fmid) = 0
         THEN BrentLoop(f, args, mid, fmid, mid, fmid, it + 1, maxiter, rtol)
       ELSE IF XSg(fmid) = XSg(flo)
         THEN BrentLoop(f, args, mid, fmid, hi, fhi, it + 1, maxiter, rtol)
       ELSE BrentLoop(f, args, lo, flo, mid, fmid, it + 1, maxiter, rtol)

\* scipy.optimize.brentq(f, a, b, args=args, maxiter=maxiter, rtol=rtol,
\* full_output=True)
brentq(f, a, b, args, maxiter, rtol) ==
  IF ~IsFin(a) \/ ~IsFin(b) THEN Failed("RuntimeError")
  ELSE
    LET fa == Call(f, a, args)
        fb == Call(f, b, args)
    IN IF IsNaN(fa) \/ IsNaN(fb) THEN Failed("RuntimeError")
       ELSE IF XSg(fa) * XSg(fb) > 0 THEN Failed("ValueError")
       ELSE IF XSg(fa) = 0 THEN [status |-> "ok", root |-> a, iterations |-> 0]
       ELSE IF XSg(fb) = 0 THEN [status |-> "ok", root |-> b, iterations |-> 0]
       ELSE IF a.v <= b.v THEN BrentLoop(f, args, a.v, fa, b.v, fb, 0, maxiter, rtol)
       ELSE BrentLoop(f, args, b.v, fb, a.v, fa, 0, maxiter, rtol)

\* the secant loop of scipy.optimize.newton (no fprime given)
RECURSIVE SecantLoop(_, _, _, _, _, _, _, _, _)
SecantLoop(f, args, p0, q0, p1, q1, it, maxiter, tol) ==
  IF it = maxiter THEN Failed("RuntimeError")
  ELSE IF q0.k # "nan" /\ q1 = q0
    THEN [status |-> "ok", root |-> Num(RoundDiv(p1 + p0, 2)), iterations |-> it]
  ELSE IF ~IsFin(q0) \/ ~IsFin(q1) THEN Failed("RuntimeError")
  ELSE
    LET p == RoundGrid(p1 - MulDiv(q1.v, p1 - p0, Abs(q1.v - q0.v)) * Sgn(q1.v - q0.v))
    IN IF Abs(p - p1) <= (tol * Q - 1) \div 1000
         THEN [status |-> "ok", root |-> Num(p), iterations |-> it]
       ELSE SecantLoop(f, args, p1, q1, p, Call(f, Num(p), args), it + 1, maxiter, tol)

\* scipy.optimize.newton(f, x0, args=args, maxiter=maxiter, tol=tol): the second point
\* of the secant is x0 moved away from zero by the resolution
newton(f, x0, args, maxiter, tol) ==
  IF ~IsFin(x0) THEN Failed("RuntimeError")
  ELSE
    LET p0 == x0.v
        p1 == IF p0 >= 0 THEN p0 + FLUX_FACTOR_DEN ELSE p0 - FLUX_FACTOR_DEN
    IN SecantLoop(f, args, p0, Call(f, Num(p0), args), p1, Call(f, Num(p1), args), 0, maxiter, tol)

(***************************************************************************)
(* The amplitude solvers.  A result is [amplitude, niter, raised].         *)
(***************************************************************************)
ArraySum(a) == ISum(a.d, Cells(a))

Fitted(a, n) == [amplitude |-> a, niter |-> n, raised |-> "none"]

Raised(e) == [amplitude |-> NaN, niter |-> 0, raised |-> e]

\* abs((x - x_old) / x) < rtol, x # 0
RelStepBelow(x, x_old, rtol) ==
  /\ IsFin(x) /\ IsFin(x_old)
  /\ Abs(x.v - x_old.v) <= (rtol * Abs(x.v) - 1) \div 1000

RECURSIVE LeastsqLoop(_, _, _, _, _, _, _, _, _)
LeastsqLoop(counts, background, model, weights, x_old, i, maxiter, rtol, amplitude_min_total) ==
  LET x == _x_best_leastsq(counts, background, model, weights)
  IN IF i = maxiter
       THEN Fitted(PyMax(XScale(x_old, FLUX_FACTOR_DEN), amplitude_min_total), MAX_NITER)
     ELSE IF IsFin(x) /\ x.v = 0 THEN Raised("ZeroDivisionError")
     ELSE IF RelStepBelow(x, x_old, rtol)
       THEN Fitted(PyMax(XScale(x, FLUX_FACTOR_DEN), amplitude_min_total), i + 1)
     ELSE LeastsqLoop(counts, background, model,
            [h |-> model.h, w |-> model.w,
             d |-> [c \in Cells(model) |->
                      XAdd(XScale(x, model.d[c]), Num(Q * background.d[c]))]],
            x, i + 1, maxiter, rtol, amplitude_min_total)

_leastsq_iter_amplitude(counts, background, model, maxiter, rtol) ==
  LET bounds == _amplitude_bounds_cython(counts, background, model)
  IN IF ~(ArraySum(counts) > 0) THEN Fitted(bounds.amplitude_min_total, 0)
     ELSE LeastsqLoop(counts, background, model,
            [h |-> model.h, w |-> model.w, d |-> [c \in Cells(model) |-> Num(Q)]],
            Num(0), 0, maxiter, rtol, bounds.amplitude_min_total)

\* a mutation of _root_amplitude with the iteration limit doubled
_root_amplitude_doubled(counts, background, model, flux, rtol) ==
  LET args == <<counts, background, model>>
      r == newton([name |-> "_f_cash_root_cython"], flux, args, 2 * MAX_NITER, rtol)
  IN IF r.status = "ok" THEN Fitted(r.root, 0)
     ELSE IF r.status = "RuntimeError" THEN Fitted(NaN, 2 * MAX_NITER)
     ELSE Raised(r.status)

_root_amplitude(counts, background, model, flux, rtol) ==
  LET args == <<counts, background, model>>
      r == newton([name |-> "_f_cash_root_cython"], flux, args, MAX_NITER, rtol)
  IN IF r.status = "ok" THEN Fitted(r.root, 0)
     ELSE IF r.status = "RuntimeError" THEN Fitted(NaN, MAX_NITER)
     ELSE Raised(r.status)

\* a mutation of _root_amplitude_brentq without the try/except around brentq
_root_amplitude_brentq_uncaught(counts, background, model, rtol) ==
  LET bounds == _amplitude_bounds_cython(counts, background, model)
      args == <<counts, background, model>>
      r == brentq([name |-> "_f_cash_root_cython"], bounds.amplitude_min,
                  bounds.amplitude_max, args, MAX_NITER, rtol)
  IN IF ~(ArraySum(counts) > 0) THEN Fitted(bounds.amplitude_min_total, 0)
     ELSE IF r.status = "ok"
       THEN Fitted(PyMax(r.root, bounds.amplitude_min_total), r.iterations)
     ELSE Raised(r.status)

_root_amplitude_brentq(counts, background, model, rtol) ==
  LET bounds == _amplitude_bounds_cython(counts, background, model)
      args == <<counts, background, model>>
      r == brentq([name |-> "_f_cash_root_cython"], bounds.amplitude_min,
                  bounds.amplitude_max, args, MAX_NITER, rtol)
  IN IF ~(ArraySum(counts) > 0) THEN Fitted(bounds.amplitude_min_total, 0)
     ELSE IF r.status = "ok"
       THEN Fitted(PyMax(r.root, bounds.amplitude_min_total), r.iterations)
     ELSE Fitted(NaN, MAX_NITER)


(***************************************************************************)
(* Error and upper limit estimators.                                       *)
(***************************************************************************)
\* floor of the square root of n >= 0
RECURSIVE SqrtBetween(_, _, _)
SqrtBetween(n, lo, hi) ==
  IF hi - lo <= 1 THEN lo
  ELSE LET mid == (lo + hi) \div 2
       IN IF mid * mid <= n THEN SqrtBetween(n, mid, hi) ELSE SqrtBetween(n, lo, mid)

ISqrt(n) == SqrtBetween(n, 0, 32768)

\* model**2 * counts / (background + x*FLUX_FACTOR*model)**2 for one pixel, in 1/64
CovarTerm(n, m, p) ==
  IF p.k = "nan" THEN NaN
  ELSE IF p.k = "inf" THEN Num(0)
  ELSE IF p.v = 0 THEN (IF m * m * n > 0 THEN PosInf ELSE NaN)
  ELSE Num(RoundDiv(MulDiv(m * m * n * Q * 64, Q, Abs(p.v)), Abs(p.v)))

_compute_flux_err_covar(x, counts, background, model) ==
  LET S == Cells(counts)
      total == XSum([c \in S |->
                 CovarTerm(counts.d[c], model.d[c],
                           Predicted(x, background.d[c], model.d[c]))], S)
  IN IF total.k = "nan" THEN NaN
     ELSE IF total.k = "inf" THEN Num(0)
     ELSE IF total.v = 0 THEN PosInf
     ELSE Num(RoundDiv(ISqrt((Q * Q * 64 * 256) \div total.v), 16))

\* a mutation of _compute_flux_err_conf that reports no error where the root
\* finding fails
_compute_flux_err_conf_zero(amplitude, counts, background, model, c_1, error_sigma) ==
  LET amplitude_max == XAdd(amplitude, Num(10000 * Q))
      args == <<counts, background, model>>
      r == brentq([name |-> "ts_diff", c_1 |-> c_1, error_sigma |-> error_sigma],
                  amplitude, amplitude_max, args, MAX_NITER, 1)
  IN IF r.status = "ok" THEN XSub(r.root, amplitude) ELSE Num(0)

_compute_flux_err_conf(amplitude, counts, background, model, c_1, error_sigma) ==
  LET amplitude_max == XAdd(amplitude, Num(10000 * Q))
      args == <<counts, background, model>>
      r == brentq([name |-> "ts_diff", c_1 |-> c_1, error_sigma |-> error_sigma],
                  amplitude, amplitude_max, args, MAX_NITER, 1)
  IN IF r.status = "ok" THEN XSub(r.root, amplitude) ELSE NaN

(***************************************************************************)
(* The per-pixel evaluator.  Its outcome is [raised, kind, val]: the       *)
(* exception it raises, or the value it returns: a dict (a function of its *)
(* keys) or the 3-tuple of the threshold branch.                           *)
(***************************************************************************)
TimesFluxFactor(x) == XQuot(x, Num(FLUX_FACTOR_DEN), 1)

Raises(e) == [raised |-> e, kind |-> "none", val |-> <<>>]

Returns(kind, val) == [raised |-> "none", kind |-> kind, val |-> val]

\* lines 556-575: the result dict from a solver's amplitude
PixelResult(a, niter, counts_, background_, model, c_0, error_method, error_sigma, ul_method, ul_sigma) ==
  LET c_1 == f_cash(a, counts_, background_, model)
      base == ("ts" :> XSignTimes(XSub(c_0, c_1), a))
              @@ ("flux" :> TimesFluxFactor(a))
              @@ ("niter" :> Num(niter))
      with_err ==
        IF error_method = "covar"
          THEN base @@ ("flux_err" :>
                 XScale(_compute_flux_err_covar(a, counts_, background_, model), error_sigma))
        ELSE IF error_method = "conf"
          THEN base @@ ("flux_err" :>
                 TimesFluxFactor(_compute_flux_err_conf(a, counts_, background_, model,
                                                        c_1, error_sigma)))
        ELSE base
  IN IF ul_method = "covar"
       THEN IF "flux_err" \in DOMAIN with_err
              THEN Returns("dict", with_err @@ ("flux_ul" :>
                     XAdd(with_err["flux"], XScale(with_err["flux_err"], ul_sigma))))
            ELSE Raises("KeyError")
     ELSE IF ul_method = "conf"
       THEN Returns("dict", with_err @@ ("flux_ul" :>
              XAdd(TimesFluxFactor(_compute_flux_err_conf(a, counts_, background_, model,
                                                          c_1, ul_sigma)),
                   with_err["flux"])))
     ELSE Returns("dict", with_err)

\* lines 544-551: the solver the method names, on the window at position
Solve(position, counts, exposure, background, kernel, flux, method, rtol) ==
  LET shape == <<kernel.h, kernel.w>>
      counts_ == _extract_array(counts, shape, position)
      background_ == _extract_array(background, shape, position)
      exposure_ == _extract_array(exposure, shape, position)
      model == [h |-> kernel.h, w |-> kernel.w,
                d |-> [c \in Cells(kernel) |-> exposure_.d[c] * kernel.d[c]]]
  IN IF method = "root brentq"
       THEN _root_amplitude_brentq(counts_, background_, model, rtol)
     ELSE IF method = "root newton"
       THEN _root_amplitude(counts_, background_, model, flux.d[position], rtol)
     ELSE IF method = "leastsq iter"
       THEN _leastsq_iter_amplitude(counts_, background_, model, MAX_NITER, rtol)
     ELSE Raised("ValueError")

\* a mutation of _ts_value whose threshold branch returns a dict that run can store
_ts_value_skipped_as_dict(position, counts, exposure, background, c_0, kernel, flux, method, error_method, error_sigma, ul_method, ul_sigma, threshold, rtol) ==
  LET shape == <<kernel.h, kernel.w>>
      counts_ == _extract_array(counts, shape, position)
      background_ == _extract_array(background, shape, position)
      exposure_ == _extract_array(exposure, shape, position)
      c_0_ == _extract_array(c_0, shape, position)
      model == [h |-> kernel.h, w |-> kernel.w,
                d |-> [c \in Cells(kernel) |-> exposure_.d[c] * kernel.d[c]]]
      c_0s == XSum(c_0_.d, Cells(c_0_))
      seed_c_1 == f_cash(flux.d[position], counts_, background_, model)
      fit == Solve(position, counts, exposure, background, kernel, flux, method, rtol)
  IN IF ~SameShape(exposure_, kernel) THEN Raises("ValueError")
     ELSE IF threshold # None /\ flux = None THEN Raises("TypeError")
     ELSE IF threshold # None /\ XLt(XSub(c_0s, seed_c_1), threshold)
       THEN Returns("dict", [name \in {"ts", "flux", "niter", "flux_err", "flux_ul"} |->
                               IF name = "ts" THEN XSub(c_0s, seed_c_1)
                               ELSE IF name = "flux" THEN TimesFluxFactor(flux.d[position])
                               ELSE IF name = "niter" THEN Num(0)
                               ELSE NaN])
     ELSE IF fit.raised # "none" THEN Raises(fit.raised)
     ELSE PixelResult(fit.amplitude, fit.niter, counts_, background_, model, c_0s,
                      error_method, error_sigma, ul_method, ul_sigma)

_ts_value(position, counts, exposure, background, c_0, kernel, flux, method, error_method, error_sigma, ul_method, ul_sigma, threshold, rtol) ==
  LET shape == <<kernel.h, kernel.w>>
      counts_ == _extract_array(counts, shape, position)
      background_ == _extract_array(background, shape, position)
      exposure_ == _extract_array(exposure, shape, position)
      c_0_ == _extract_array(c_0, shape, position)
      model == [h |-> kernel.h, w |-> kernel.w,
                d |-> [c \in Cells(kernel) |-> exposure_.d[c] * kernel.d[c]]]
      c_0s == XSum(c_0_.d, Cells(c_0_))
      seed_c_1 == f_cash(flux.d[position], counts_, background_, model)
      fit == Solve(position, counts, exposure, background, kernel, flux, method, rtol)
  IN IF ~SameShape(exposure_, kernel) THEN Raises("ValueError")
     ELSE IF threshold # None /\ flux = None THEN Raises("TypeError")
     ELSE IF threshold # None /\ XLt(XSub(c_0s, seed_c_1), threshold)
       THEN Returns("tuple", <<XSub(c_0s, seed_c_1), TimesFluxFactor(flux.d[position]), Num(0)>>)
     ELSE IF fit.raised # "none" THEN Raises(fit.raised)
     ELSE PixelResult(fit.amplitude, fit.niter, counts_, background_, model, c_0s,
                      error_method, error_sigma, ul_method, ul_sigma)


(***************************************************************************)
(* TSMapEstimator: the image-level helpers.                                *)
(***************************************************************************)
Grid(h, w) == (0 .. h - 1) \X (0 .. w - 1)

Array(h, w, d) == [h |-> h, w |-> w, d |-> d]

InSlice(i, s) == s.lo <= i /\ i < s.lo + s.len

\* a mutation of mask_default that keeps the pixels without background
mask_default_any_background(maps, kernel) ==
  LET exposure == maps["exposure"]
      slice_x == PySlice(kernel.w \div 2, ((-kernel.w) \div 2) + 1, exposure.w)
      slice_y == PySlice(kernel.h \div 2, ((-kernel.h) \div 2) + 1, exposure.h)
  IN Array(exposure.h, exposure.w,
       [c \in Grid(exposure.h, exposure.w) |-> IF /\ InSlice(c[1], slice_y) /\ InSlice(c[2], slice_x)
                     /\ exposure.d[c] > 0
                  THEN 1 ELSE 0])

\* TSMapEstimator.mask_default
mask_default(maps, kernel) ==
  LET exposure == maps["exposure"]
      background == maps["background"]
      slice_x == PySlice(kernel.w \div 2, ((-kernel.w) \div 2) + 1, exposure.w)
      slice_y == PySlice(kernel.h \div 2, ((-kernel.h) \div 2) + 1, exposure.h)
  IN Array(exposure.h, exposure.w,
       [c \in Grid(exposure.h, exposure.w) |-> IF /\ InSlice(c[1], slice_y) /\ InSlice(c[2], slice_x)
                     /\ exposure.d[c] > 0
                     /\ background.d[c] # 0
                  THEN 1 ELSE 0])

\* scipy.signal.fftconvolve(in1, in2, mode='same'): a value that is not finite
\* anywhere in in1 spoils the whole transform
fftconvolve_same(in1, in2) ==
  LET cy == (in2.h - 1) \div 2
      cx == (in2.w - 1) \div 2
      At(c, u) == <<c[1] + cy - u[1], c[2] + cx - u[2]>>
  IN Array(in1.h, in1.w,
       [c \in Grid(in1.h, in1.w) |-> IF \E o \in Cells(in1) : ~IsFin(in1.d[o]) THEN NaN
                  ELSE XSum([u \in Cells(in2) |->
                               IF At(c, u) \in Cells(in1)
                                 THEN XScale(in1.d[At(c, u)], in2.d[u])
                               ELSE Num(0)],
                            Cells(in2))])

flux_default(maps, kernel) ==
  LET flux == Array(maps["counts"].h, maps["counts"].w,
                [c \in Grid(maps["counts"].h, maps["counts"].w) |-> XQuot(Num(maps["counts"].d[c] - maps["background"].d[c]),
                                 Num(maps["exposure"].d[c]), Q)])
      smooth == fftconvolve_same(flux, kernel)
      norm == ISum([u \in Cells(kernel) |-> kernel.d[u] * kernel.d[u]], Cells(kernel))
  IN Array(smooth.h, smooth.w, [c \in Grid(smooth.h, smooth.w) |-> XQuot(smooth.d[c], Num(norm), 1)])

\* sqrt(TS) in 1/32: where(ts > 0, sqrt(ts), -sqrt(-ts))
sqrt_ts(map_ts) ==
  Array(map_ts.h, map_ts.w,
    [c \in Grid(map_ts.h, map_ts.w) |-> LET ts == map_ts.d[c]
               IN IF ts.k # "fin" THEN ts
                  ELSE IF ts.v > 0 THEN Num(ISqrt(ts.v))
                  ELSE Num(-ISqrt(-ts.v))])


\* the array with the given rows
FromRows(rows) == Array(Len(rows), Len(rows[1]), [c \in Grid(Len(rows), Len(rows[1])) |-> rows[c[1] + 1][c[2] + 1]])


(***************************************************************************)
(* The state: an estimator, the arguments of run, and one call of run with *)
(* its pool of workers.                                                    *)
(***************************************************************************)
VARIABLES
  inputs,      \* what the caller passes: [args, maps, kernel, which]
  parameters,  \* self.parameters, None before __init__ has stored it
  maps,        \* the input maps as they are now: role name -> array
  kernel,      \* the kernel
  which,       \* the `which` argument: [all, names]
  pc,          \* "new", "ctor_raised", "idle", "pool", "returned", "raised"
  err,         \* the exception raised by __init__ or run, "none" otherwise
  result,      \* what run returned: name -> array (<<>> if nothing)
  mask,        \* the processing mask of the call
  positions,   \* list(zip(*np.where(mask)))
  c_0,         \* the null statistic image bound into `wrap`
  flux,        \* the default flux image bound into `wrap` (None unless newton)
  tasks,       \* per position index: "pending", "running", "done"
  workers,     \* per worker: the index it is evaluating, 0 when idle
  outcomes,    \* pool.map's result list: per index, what _ts_value returned or raised
  dispatched,  \* per position index: how often it was handed to _ts_value
  completed,   \* the position indices in the order their results arrived
  history,     \* what each finished call of run returned or raised
  call,               \* the arguments of compute_ts_image_multiscale
  caller_maps,        \* the maps its caller holds: name -> [shape, data]
  multiscale_result,  \* its list of result stacks, one per scale done
  driver_calls,       \* per scale done: what was handed to the TS-map driver
  ms_pc,              \* "off", "loop", "returned", "raised"
  ts_image_results,   \* the argument of compute_maximum_ts_image
  maximum             \* what compute_maximum_ts_image returned or raised

estimator_vars ==
  <<inputs, parameters, maps, kernel, which, pc, err, result, mask, positions,
    c_0, flux, tasks, workers, outcomes, dispatched, completed, history>>

multiscale_vars ==
  <<call, caller_maps, multiscale_result, driver_calls, ms_pc, ts_image_results, maximum>>

vars == <<estimator_vars, multiscale_vars>>

Width == 4

MaxJobs == 2

MaxRuns == 2

ALL == {"ts", "sqrt_ts", "flux", "flux_err", "flux_ul", "niter"}

REQUIRED == {"counts", "background", "exposure"}

\* lines 259-260
Which(w) == IF w.all THEN ALL ELSE w.names

NoOutcome == Returns("none", <<>>)

(***************************************************************************)
(* The inputs: small images, three rows high and Width columns wide, so    *)
(* that a 3x3 kernel leaves Width - 2 positions in the processing mask.    *)
(***************************************************************************)
CrossKernel == FromRows(<<<<0, 1, 0>>, <<1, 2, 1>>, <<0, 1, 0>>>>)

\* the pixels of an image: as many rows as the kernel has
Pixels == Grid(CrossKernel.h, Width)

Image(d) == Array(CrossKernel.h, Width, d)

Flat(v) == Image([c \in Pixels |-> v])

Spot(base, at, v) == Image([c \in Pixels |-> IF c = at THEN v ELSE base])

Nowhere == <<-1, -1>>

\* counts only where the kernel placed at <<1, 1>> has weight zero
OffAxis == Image([c \in Pixels |-> IF c \in {<<0, 2>>, <<2, 2>>} THEN 2
                           ELSE IF c = <<1, 3>> THEN 3 ELSE 0])

CountsImages == {Flat(0), Flat(1), Spot(1, <<1, 1>>, 4), OffAxis}

BoxKernel(n) == Array(n, n, [c \in Grid(n, n) |-> 1])

Args(method, error_method, ul_method, n_jobs, threshold) ==
  [method |-> method, error_method |-> error_method, error_sigma |-> 1,
   ul_method |-> ul_method, ul_sigma |-> 2, n_jobs |-> n_jobs,
   threshold |-> threshold, rtol |-> RTOL]

METHODS == {"root brentq", "root newton", "leastsq iter"}

Everything == [all |-> TRUE, names |-> {}]

Only(names) == [all |-> FALSE, names |-> names]

Maps(counts, background, exposure) ==
  ("counts" :> counts) @@ ("background" :> background) @@ ("exposure" :> exposure)

Scenario(a, m, k, w) == [args |-> a, maps |-> m, kernel |-> k, which |-> w]

\* background and exposure images: flat, or with one pixel without background
\* or without exposure
BackgroundAndExposure ==
  {<<Flat(1), Flat(1)>>,
   <<Spot(1, <<1, 1>>, 0), Flat(1)>>, <<Spot(1, <<0, 1>>, 0), Flat(1)>>,
   <<Flat(1), Spot(1, <<1, 2>>, 0)>>, <<Flat(1), Spot(1, <<1, 1>>, -1)>>,
   <<Spot(1, <<1, 1>>, 0), Spot(1, <<1, 2>>, 0)>>}

\* pixels without background or exposure, with and without a user mask
MaskingScenarios ==
  { Scenario(Args(method, "covar", "covar", 1, None),
             IF ku[2] = Nowhere THEN Maps(counts, be[1], be[2])
             ELSE Maps(counts, be[1], be[2]) @@ ("mask" :> Spot(1, ku[2], 0)),
             ku[1], Everything) :
      counts \in CountsImages, be \in BackgroundAndExposure, method \in METHODS,
      ku \in {<<CrossKernel, Nowhere>>, <<CrossKernel, <<1, 2>>>>,
              <<BoxKernel(Len(<<0, 1, 2>>)), Nowhere>>} }

\* several workers
ParallelScenarios ==
  { Scenario(Args(method, "covar", "covar", n_jobs, None),
             Maps(counts, Flat(1), Flat(1)), CrossKernel, Everything) :
      counts \in CountsImages, method \in METHODS, n_jobs \in 1 .. MaxJobs }

\* the error and upper-limit methods
ErrorScenarios ==
  { Scenario(Args(method, error_method, ul_method, 1, None),
             Maps(counts, Flat(1), Flat(1)), CrossKernel, Everything) :
      counts \in CountsImages, method \in METHODS,
      error_method \in {"covar", "conf"}, ul_method \in {"covar", "conf"} }

\* an upper limit asked for without the error
UpperLimitScenarios ==
  { Scenario(Args(method, "covar", ul_method, 1, None),
             Maps(OffAxis, Flat(1), Flat(1)), CrossKernel,
             Only({"ts", "flux", "niter", "flux_ul"})) :
      method \in METHODS, ul_method \in {"covar", "conf"} }

\* an error of two sigma
SigmaScenarios ==
  { Scenario([Args("root brentq", error_method, "covar", 1, None) EXCEPT !.error_sigma = 2],
             Maps(Spot(1, <<1, 1>>, 4), Flat(1), Flat(1)), CrossKernel, Everything) :
      error_method \in {"covar", "conf"} }

\* a threshold on the statistic of the seed flux
ThresholdScenarios ==
  { Scenario(Args(method, "covar", "covar", 1, Num(t)),
             Maps(counts, Flat(background), Flat(1)), CrossKernel, Everything) :
      counts \in CountsImages, method \in METHODS, t \in {0, 64 * Q * 100},
      background \in {1, 2} }

\* the quantities asked for
WhichScenarios ==
  { Scenario(Args(method, "covar", ul_method, 1, None),
             Maps(Spot(1, <<1, 1>>, 4), Flat(1), Flat(1)), CrossKernel, Only(names)) :
      method \in METHODS, ul_method \in {"covar", "bogus"},
      names \in {ALL, {"ts", "flux", "niter"}, {"ts", "sqrt_ts", "flux", "niter"},
                 {"flux", "niter"}, {"ts", "niter"}, {"ts", "flux"}, {"sqrt_ts"},
                 {"flux_err", "flux_ul"}, {},
                 {"ts", "flux", "niter", "significance"}, {"significance"}} }

\* run called without one of the maps it needs
MissingScenarios ==
  { Scenario(Args(method, "covar", "covar", n_jobs, None),
             [r \in present |-> Maps(Flat(1), Flat(1), Flat(1))[r]], CrossKernel, w) :
      method \in METHODS, n_jobs \in 1 .. MaxJobs,
      present \in (SUBSET REQUIRED) \ {REQUIRED}, w \in {Everything, Only({})} }

\* constructor arguments outside the supported values
ConstructorScenarios ==
  { Scenario(Args(method, error_method, ul_method, 1, None),
             Maps(Spot(1, <<1, 1>>, 4), Flat(1), Flat(1)), CrossKernel, Everything) :
      method \in METHODS \cup {"bogus"}, error_method \in {"covar", "conf", "bogus"},
      ul_method \in {"covar", "conf", "bogus"} }

\* kernels of other sizes
KernelScenarios ==
  { Scenario(Args(method, "covar", "covar", 1, None),
             Maps(counts, Flat(1), Flat(1)), BoxKernel(n), Everything) :
      method \in METHODS, counts \in CountsImages, n \in 1 .. Width }

\* a kernel with an even extent: three rows of four columns
WideKernel == Array(CrossKernel.h, CrossKernel.w + 1, [c \in Grid(CrossKernel.h, CrossKernel.w + 1) |-> 1])

EvenKernelScenarios ==
  { Scenario(Args(method, "covar", "covar", 1, None),
             Maps(Spot(1, <<1, 1>>, 4), Flat(1), Flat(1)), WideKernel, Everything) :
      method \in METHODS }

\* other tolerances than the default
RtolScenarios ==
  { Scenario([Args(method, error_method, "covar", 1, None) EXCEPT !.rtol = rtol],
             Maps(Spot(1, <<1, 1>>, 4), Flat(1), Flat(1)), CrossKernel, Everything) :
      method \in METHODS, error_method \in {"covar", "conf"}, rtol \in {10 * RTOL, 500 * RTOL} }

Scenarios ==
  MaskingScenarios \cup ParallelScenarios \cup ErrorScenarios \cup UpperLimitScenarios
    \cup ThresholdScenarios \cup WhichScenarios \cup MissingScenarios
    \cup ConstructorScenarios \cup KernelScenarios \cup SigmaScenarios
    \cup EvenKernelScenarios \cup RtolScenarios

(***************************************************************************)
(* The operations.                                                         *)
(***************************************************************************)
\* a mutation of __init__ that stores the parameters without validating them
Construct_unchecked ==
  /\ pc = "new"
  /\ parameters' = inputs.args
  /\ pc' = "idle"
  /\ err' = "none"
  /\ UNCHANGED <<multiscale_vars, inputs, maps, kernel, which, result, mask, positions, c_0, flux, tasks,
                 workers, outcomes, dispatched, completed, history>>

\* TSMapEstimator.__init__
Construct ==
  /\ pc = "new"
  /\ IF /\ inputs.args.method \in {"root brentq", "root newton", "leastsq iter"}
        /\ inputs.args.error_method \in {"covar", "conf"}
       THEN /\ parameters' = inputs.args
            /\ pc' = "idle"
            /\ err' = "none"
       ELSE /\ parameters' = parameters
            /\ pc' = "ctor_raised"
            /\ err' = "ValueError"
  /\ UNCHANGED <<multiscale_vars, inputs, maps, kernel, which, result, mask, positions, c_0, flux, tasks,
                 workers, outcomes, dispatched, completed, history>>

\* np.where(mask): the true positions in row-major order
RECURSIVE InScanOrder(_, _)
InScanOrder(S, w) ==
  IF S = {} THEN <<>>
  ELSE LET first == CHOOSE c \in S : \A o \in S : c[1] * w + c[2] <= o[1] * w + o[2]
       IN <<first>> \o InScanOrder(S \ {first}, w)

\* a mutation of lines 267-270 that ANDs in place into the caller's mask
ProcessingMask_inplace(m, k) ==
  LET mk == mask_default(m, k)
      both == Array(mk.h, mk.w, [c \in Grid(mk.h, mk.w) |-> IF mk.d[c] = 1 /\ m["mask"].d[c] = 1 THEN 1 ELSE 0])
  IN IF "mask" \in DOMAIN m
       THEN [mask |-> both, maps |-> [m EXCEPT !["mask"] = both]]
     ELSE [mask |-> mk, maps |-> m]

\* lines 267-270: the processing mask, and the maps after the statement
ProcessingMask(m, k) ==
  LET mk == mask_default(m, k)
  IN IF "mask" \in DOMAIN m
       THEN [mask |-> Array(mk.h, mk.w,
                        [c \in Grid(mk.h, mk.w) |-> IF mk.d[c] = 1 /\ m["mask"].d[c] = 1 THEN 1 ELSE 0]),
             maps |-> m]
     ELSE [mask |-> mk, maps |-> m]

\* run raises e
Abort(e) ==
  /\ pc' = "raised"
  /\ err' = e
  /\ history' = Append(history, [raised |-> e, maps |-> <<>>])
  /\ UNCHANGED <<maps, mask, positions, c_0, flux, tasks, workers, outcomes, dispatched>>

\* lines 267-311: the images bound into `wrap` and the hand-over to the pool
Dispatch(m) ==
  LET pm == ProcessingMask(m, kernel)
      ps == InScanOrder({c \in Cells(pm.mask) : pm.mask.d[c] # 0}, pm.mask.w)
  IN /\ maps' = pm.maps
     /\ mask' = pm.mask
     /\ positions' = ps
     /\ c_0' = _cash_cython(m["counts"], m["background"])
     /\ flux' = IF parameters.method = "root newton" THEN flux_default(m, kernel) ELSE None
     /\ tasks' = [i \in 1 .. Len(ps) |-> "pending"]
     /\ outcomes' = [i \in 1 .. Len(ps) |-> NoOutcome]
     /\ dispatched' = [i \in 1 .. Len(ps) |-> 0]
     /\ workers' = [w \in 1 .. parameters.n_jobs |-> 0]
     /\ pc' = "pool"
     /\ UNCHANGED <<err, history>>

\* a mutation of run that reads a missing map as an image of ones
RunPrepare_defaults ==
  /\ pc = "idle"
  /\ Len(history) < MaxRuns
  /\ Dispatch([r \in DOMAIN maps \cup REQUIRED |->
                 IF r \in DOMAIN maps THEN maps[r] ELSE Flat(1)])
  /\ completed' = <<>>
  /\ result' = <<>>
  /\ UNCHANGED <<multiscale_vars, inputs, parameters, kernel, which>>

\* lines 254-311 of run, up to the hand-over to the pool
RunPrepare ==
  /\ pc = "idle"
  /\ Len(history) < MaxRuns
  /\ IF ~(REQUIRED \subseteq DOMAIN maps) THEN Abort("KeyError") ELSE Dispatch(maps)
  /\ completed' = <<>>
  /\ result' = <<>>
  /\ UNCHANGED <<multiscale_vars, inputs, parameters, kernel, which>>

\* an idle worker takes the next position from pool.map's queue
Pick(w, i) ==
  /\ pc = "pool"
  /\ workers[w] = 0
  /\ tasks[i] = "pending"
  /\ \A j \in DOMAIN tasks : tasks[j] = "pending" => i <= j
  /\ workers' = [workers EXCEPT ![w] = i]
  /\ tasks' = [tasks EXCEPT ![i] = "running"]
  /\ dispatched' = [dispatched EXCEPT ![i] = @ + 1]
  /\ UNCHANGED <<multiscale_vars, inputs, parameters, maps, kernel, which, pc, err, result, mask, positions,
                 c_0, flux, outcomes, completed, history>>

\* lines 285-303: the call `wrap` makes for a position
Evaluate(position) ==
  _ts_value(position, maps["counts"], maps["exposure"], maps["background"], c_0, kernel,
            flux, parameters.method,
            IF "flux_err" \in Which(which) THEN parameters.error_method ELSE "none",
            parameters.error_sigma,
            IF "flux_ul" \in Which(which) THEN parameters.ul_method ELSE "none",
            parameters.ul_sigma, parameters.threshold, parameters.rtol)

\* a mutation of pool.map that keeps results in the order of arrival
ArrivalSlot(i, arrived) == Len(arrived) + 1

\* pool.map keeps the results in the order of the positions
ResultSlot(i, arrived) == i

\* the worker evaluates its position and reports to pool.map
Finish(w) ==
  /\ pc = "pool"
  /\ workers[w] # 0
  /\ outcomes' = [outcomes EXCEPT ![ResultSlot(workers[w], completed)] =
                    Evaluate(positions[workers[w]])]
  /\ tasks' = [tasks EXCEPT ![workers[w]] = "done"]
  /\ completed' = Append(completed, workers[w])
  /\ workers' = [workers EXCEPT ![w] = 0]
  /\ UNCHANGED <<multiscale_vars, inputs, parameters, maps, kernel, which, pc, err, result, mask, positions,
                 c_0, flux, dispatched, history>>

\* a mutation of lines 263-264 that starts the maps from zeros
ZeroMap(shape) == Array(shape.h, shape.w, [c \in Grid(shape.h, shape.w) |-> Num(0)])

\* lines 263-264: np.nan * np.ones_like(maps['counts'].data)
NaNMap(shape) == Array(shape.h, shape.w, [c \in Grid(shape.h, shape.w) |-> NaN])

\* result[name].data[j, i] = [_[name] for _ in results]
Scatter(data, name, ps, outs) ==
  [data EXCEPT !.d = [c \in DOMAIN data.d |->
     IF \E n \in DOMAIN ps : ps[n] = c
       THEN outs[CHOOSE n \in DOMAIN ps : ps[n] = c].val[name]
     ELSE data.d[c]]]

\* lines 262-265 and 313-328: the maps run returns from the pool's results
ResultMaps(names, ps, outs, shape) ==
  LET filled == [name \in names |->
                   IF name \in {"ts", "flux", "niter", "flux_err", "flux_ul"}
                     THEN Scatter(NaNMap(shape), name, ps, outs)
                   ELSE NaNMap(shape)]
  IN IF "sqrt_ts" \in names
       THEN [filled EXCEPT !["sqrt_ts"] = sqrt_ts(filled["ts"])]
     ELSE filled

\* the exception pool.map re-raises: that of the first failure to arrive
PoolError(arrived, outs) ==
  LET bad == {n \in DOMAIN arrived : outs[arrived[n]].raised # "none"}
  IN IF bad = {} THEN "none"
     ELSE outs[arrived[CHOOSE n \in bad : \A o \in bad : n <= o]].raised

\* the exception lines 313-328 raise, "none" if they run through
CollectError(names, ps, outs, ul_method) ==
  IF Len(ps) = 0 THEN "ValueError"
  ELSE IF \E n \in DOMAIN outs : outs[n].kind = "tuple" THEN "TypeError"
  ELSE IF ~({"ts", "flux", "niter"} \subseteq names) THEN "KeyError"
  ELSE IF "flux_ul" \in names /\ ul_method \notin {"covar", "conf"} THEN "KeyError"
  ELSE "none"

\* pool.map has returned or raised; run finishes
Collect ==
  /\ pc = "pool"
  /\ \A i \in DOMAIN tasks : tasks[i] = "done"
  /\ LET e == IF PoolError(completed, outcomes) # "none" THEN PoolError(completed, outcomes)
              ELSE CollectError(Which(which), positions, outcomes, parameters.ul_method)
     IN IF e # "none"
          THEN /\ pc' = "raised"
               /\ err' = e
               /\ result' = <<>>
               /\ history' = Append(history, [raised |-> e, maps |-> <<>>])
          ELSE /\ pc' = "returned"
               /\ err' = "none"
               /\ result' = ResultMaps(Which(which), positions, outcomes, maps["counts"])
               /\ history' = Append(history, [raised |-> "none", maps |-> result'])
  /\ UNCHANGED <<multiscale_vars, inputs, parameters, maps, kernel, which, mask, positions, c_0, flux, tasks,
                 workers, outcomes, dispatched, completed>>

\* the caller calls run again with the same arguments
RunAgain ==
  /\ pc \in {"returned", "raised"}
  /\ Len(history) < MaxRuns
  /\ pc' = "idle"
  /\ err' = "none"
  /\ completed' = <<>>
  /\ UNCHANGED <<multiscale_vars, inputs, parameters, maps, kernel, which, result, mask, positions, c_0, flux,
                 tasks, workers, outcomes, dispatched, history>>

Init ==
  /\ inputs \in Scenarios
  /\ maps = inputs.maps
  /\ kernel = inputs.kernel
  /\ which = inputs.which
  /\ parameters = None
  /\ pc = "new"
  /\ err = "none"
  /\ result = <<>>
  /\ mask = <<>>
  /\ positions = <<>>
  /\ c_0 = <<>>
  /\ flux = None
  /\ tasks = <<>>
  /\ workers = <<>>
  /\ outcomes = <<>>
  /\ dispatched = <<>>
  /\ completed = <<>>
  /\ history = <<>>
  /\ call = <<>>
  /\ caller_maps = <<>>
  /\ multiscale_result = <<>>
  /\ driver_calls = <<>>
  /\ ms_pc = "off"
  /\ ts_image_results = <<>>
  /\ maximum = <<>>

Next ==
  \/ Construct
  \/ RunPrepare
  \/ \E w \in DOMAIN workers : \E i \in DOMAIN tasks : Pick(w, i)
  \/ \E w \in DOMAIN workers : Finish(w)
  \/ Collect
  \/ RunAgain

Spec == Init /\ [][Next]_vars


(***************************************************************************)
(* compute_ts_image_multiscale.  A map is [shape, data]; its data is kept  *)
(* as the bag of the caller's arrays that were added into it, each with    *)
(* the resampling it went through: [of, factor, preserve_counts].          *)
(***************************************************************************)
MaxScales == 2

\* the caller's array called name, as it is before the call
Original(name) == SetToBag({[of |-> name, factor |-> 1, preserve_counts |-> FALSE]})

\* int(downsample), for the values a caller passes besides 'auto'
int(downsample) == CASE downsample = "1" -> 1 [] downsample = "2" -> 2 [] downsample = "8" -> 8

\* lines 392-397: the factor chosen for a scale
SelectFactor(scale, BINSZ, downsample) ==
  IF downsample = "auto"
    THEN IF scale < 5 * BINSZ THEN 1
         ELSE IF scale < 10 * BINSZ THEN 2
         ELSE IF scale < 20 * BINSZ THEN 4
         ELSE IF scale < 40 * BINSZ THEN 4
         ELSE 8
  ELSE int(downsample)

\* lines 392-406: the factor used from here on, whether it is still an int
\* (factor /= 2 is a true division), and the flag downsampled
DownsampleFactor(scale, BINSZ, downsample, morphology) ==
  LET factor == SelectFactor(scale, BINSZ, downsample)
  IN IF factor = 1 THEN [factor |-> 1, int |-> TRUE, downsampled |-> FALSE]
     ELSE IF morphology = "Shell2D"
       THEN [factor |-> factor \div 2, int |-> FALSE, downsampled |-> TRUE]
     ELSE [factor |-> factor, int |-> TRUE, downsampled |-> TRUE]

\* utils.array.shape_2N: the next shape whose extents are multiples of 2^3
shape_2N(shape) == [i \in DOMAIN shape |-> shape[i] + ((2 ^ 3) - (shape[i] % (2 ^ 3)))]

\* the width of the padding on each side of each axis
symmetric_crop_pad_width(shape, new_shape) ==
  [i \in DOMAIN shape |-> Abs(new_shape[i] - shape[i]) \div 2]

\* Map.pad, Map.crop, Map.downsample and Map.upsample, on the shape
pad(map, pad_width) ==
  [map EXCEPT !.shape = [i \in DOMAIN @ |-> @[i] + 2 * pad_width[i]]]

crop(map, crop_width) ==
  [map EXCEPT !.shape = [i \in DOMAIN @ |-> @[i] - 2 * crop_width[i]]]

Resampled(t, factor, preserve_counts) ==
  [of |-> t.of, factor |-> t.factor * factor, preserve_counts |-> preserve_counts]

downsample(map, factor, preserve_counts) ==
  [shape |-> [i \in DOMAIN map.shape |-> map.shape[i] \div factor],
   data |-> [u \in {Resampled(t, factor, preserve_counts) : t \in BagToSet(map.data)} |->
               BagCardinality([t \in {t \in BagToSet(map.data) :
                                       Resampled(t, factor, preserve_counts) = u} |->
                                 map.data[t]])]]

upsample(map, factor, preserve_counts, order) ==
  [map EXCEPT !.shape = [i \in DOMAIN @ |-> @[i] * factor],
              !.upsampled = TRUE, !.order = order, !.preserve_counts = preserve_counts]

\* lines 408-417: the maps of this scale; a map that is not downsampled is the
\* caller's own object
MapsDownsampled(maps_, shape, f) ==
  LET pad_width == symmetric_crop_pad_width(shape, shape_2N(shape))
  IN [name \in DOMAIN maps_ |->
        IF f.downsampled
          THEN downsample(pad(maps_[name], pad_width), f.factor,
                          name \in {"counts", "background", "exclusion"})
        ELSE maps_[name]]

\* lines 438-439: background.data += model.data
WithResidual(maps_, residual) ==
  IF residual
    THEN [maps_ EXCEPT !["background"].data = @ (+) maps_["model"].data]
  ELSE maps_

\* lines 262-265 of run under which='all': one map per name, like counts
DriverResult(maps_) ==
  [name \in ALL |-> [shape |-> maps_["counts"].shape, upsampled |-> FALSE, order |-> 0,
                  preserve_counts |-> FALSE]]

\* zip of two lists
Zip(s, t) == [k \in 1 .. Min2(Len(s), Len(t)) |-> <<s[k], t[k]>>]

\* lines 444-452: the result maps brought back to the caller's resolution
RECURSIVE Upsampled(_, _, _, _)
Upsampled(ts_results, pairs, factor, pad_width) ==
  IF pairs = <<>> THEN ts_results
  ELSE LET name == Head(pairs)[1]
           order == Head(pairs)[2]
           up == upsample(ts_results[name], factor, name \in {"flux", "flux_err"}, order)
       IN Upsampled([ts_results EXCEPT ![name] = crop(up, pad_width)],
                    Tail(pairs), factor, pad_width)

\* the body of the loop over the scales, for the next scale
ScaleStep ==
  /\ ms_pc = "loop"
  /\ Len(multiscale_result) < Len(call.scales)
  /\ LET scale == call.scales[Len(multiscale_result) + 1]
         f == DownsampleFactor(scale, call.BINSZ, call.downsample, call.morphology)
         pad_width == symmetric_crop_pad_width(call.shape, shape_2N(call.shape))
         maps_downsampled ==
           WithResidual(MapsDownsampled(caller_maps, call.shape, f), call.residual)
         ts_results == DriverResult(maps_downsampled)
     IN IF scale > 0 /\ call.morphology \notin {"Gaussian2D", "Shell2D"}
          THEN /\ ms_pc' = "raised"
               /\ UNCHANGED <<caller_maps, multiscale_result, driver_calls>>
        ELSE /\ caller_maps' =
                  IF f.downsampled THEN caller_maps
                  ELSE [caller_maps EXCEPT !["background"] = maps_downsampled["background"]]
             /\ driver_calls' =
                  Append(driver_calls,
                         [maps |-> maps_downsampled, factor |-> f,
                          NEW_BINSZ |-> call.BINSZ * f.factor,
                          upsample |-> IF f.downsampled THEN f.factor ELSE 1])
             /\ multiscale_result' =
                  Append(multiscale_result,
                         IF f.downsampled
                           THEN Upsampled(ts_results,
                                          Zip(<<"ts", "sqrt_ts", "flux", "flux_err", "niter">>,
                                              <<1, 1, 1, 0>>),
                                          f.factor, pad_width)
                         ELSE ts_results)
             /\ ms_pc' = "loop"
  /\ UNCHANGED <<estimator_vars, call, ts_image_results, maximum>>

\* line 456: return multiscale_result
MultiscaleReturn ==
  /\ ms_pc = "loop"
  /\ Len(multiscale_result) = Len(call.scales)
  /\ ms_pc' = "returned"
  /\ UNCHANGED <<estimator_vars, call, caller_maps, multiscale_result, driver_calls,
                 ts_image_results, maximum>>

\* the scales, in units that make BINSZ an integer
SCALES == {0, 4, 5, 10, 20, 40, 80}

ScaleLists == UNION {[1 .. n -> SCALES] : n \in 1 .. MaxScales}

Calls ==
  [scales : ScaleLists, BINSZ : {1, 2}, downsample : {"auto", "1", "2", "8"},
   residual : BOOLEAN, morphology : {"Gaussian2D", "Shell2D", "Disk2D"},
   shape : {<<4, 6>>}]

\* no call of the estimator
NoEstimator ==
  /\ inputs = <<>> /\ parameters = None /\ maps = <<>> /\ kernel = <<>> /\ which = <<>>
  /\ pc = "off" /\ err = "none" /\ result = <<>> /\ mask = <<>> /\ positions = <<>>
  /\ c_0 = <<>> /\ flux = None /\ tasks = <<>> /\ workers = <<>> /\ outcomes = <<>>
  /\ dispatched = <<>> /\ completed = <<>> /\ history = <<>>

InitMultiscale ==
  /\ NoEstimator
  /\ call \in Calls
  /\ caller_maps = [name \in {"counts", "background", "exposure", "model"} |->
                      [shape |-> call.shape, data |-> Original(name)]]
  /\ multiscale_result = <<>>
  /\ driver_calls = <<>>
  /\ ms_pc = "loop"
  /\ ts_image_results = <<>>
  /\ maximum = <<>>


(***************************************************************************)
(* compute_maximum_ts_image.  A scale result is [ts, niter, amplitude,     *)
(* scale, morphology] with the three images as functions on MaximumGrid.   *)
(***************************************************************************)
MaximumGrid == Grid(1, 2)

\* the names bound in the module: lines 3-22 and the top-level definitions
ModuleNames ==
  {"logging", "time", "warnings", "OrderedDict", "partial", "Pool", "cpu_count", "np",
   "Model2DKernel", "Gaussian2DKernel", "CustomKernel", "Kernel2D",
   "_round_up_to_odd_integer", "fits", "shape_2N", "symmetric_crop_pad_width",
   "multi_gauss_psf_kernel", "WcsNDMap", "SkyShell", "_cash_cython",
   "_amplitude_bounds_cython", "_cash_sum_cython", "_f_cash_root_cython",
   "_x_best_leastsq", "TSMapEstimator", "compute_ts_image_multiscale",
   "compute_maximum_ts_image"}

\* np.max over a nonempty set of values
MaxOf(S) == CHOOSE m \in S : \A x \in S : x <= m

\* lines 484-488: the loop over the scales, from scale idx_scale on
RECURSIVE MaximumLoop(_, _, _, _)
MaximumLoop(series, idx_scale, ts_max, acc) ==
  IF idx_scale > Len(series) THEN acc
  ELSE LET r == series[idx_scale]
           index == {c \in MaximumGrid : r.ts[c] = ts_max[c]}
       IN MaximumLoop(series, idx_scale + 1, ts_max,
            [scale_max |-> [c \in MaximumGrid |->
                              IF c \in index THEN r.scale ELSE acc.scale_max[c]],
             niter_max |-> [c \in MaximumGrid |->
                              IF c \in index THEN r.niter[c] ELSE acc.niter_max[c]],
             amplitude_max |-> [c \in MaximumGrid |->
                                  IF c \in index THEN r.amplitude[c]
                                  ELSE acc.amplitude_max[c]]])

\* lines 473-488: the four arrays the function builds
MaximumArrays(series) ==
  LET ts_max == [c \in MaximumGrid |-> MaxOf({series[k].ts[c] : k \in DOMAIN series})]
      zeros == [c \in MaximumGrid |-> 0]
      filled == MaximumLoop(series, 1, ts_max,
                            [scale_max |-> zeros, niter_max |-> zeros,
                             amplitude_max |-> zeros])
  IN [ts_max |-> ts_max, scale_max |-> filled.scale_max, niter_max |-> filled.niter_max,
      amplitude_max |-> filled.amplitude_max]

\* ndarray.astype('int16'): the low 16 bits, signed
astype_int16(x) == ((x + 2 ^ 15) % (2 ^ 16)) - 2 ^ 15

\* lines 473-497
compute_maximum_ts_image(series) ==
  LET a == MaximumArrays(series)
  IN IF \E k \in DOMAIN series :
          ~({"ts", "niter", "amplitude", "scale"} \subseteq DOMAIN series[k])
       THEN Raises("AttributeError")
     ELSE IF {"SkyImageList", "SkyImage"} \subseteq ModuleNames
       THEN Returns("SkyImageList",
                    [ts |-> a.ts_max,
                     niter |-> [c \in MaximumGrid |-> astype_int16(a.niter_max[c])],
                     amplitude |-> a.amplitude_max,
                     meta |-> [MORPH |-> series[1].morphology]])
     ELSE Raises("NameError")

\* compute_maximum_ts_image called on the list compute_ts_image_multiscale has
\* returned: each element is the OrderedDict of line 442, an object whose maps
\* are its items, not its attributes
MaximumOfMultiscale ==
  /\ ms_pc = "returned"
  /\ ts_image_results' = [k \in DOMAIN multiscale_result |-> [items |-> multiscale_result[k]]]
  /\ maximum' = compute_maximum_ts_image(ts_image_results')
  /\ ms_pc' = "reduced"
  /\ UNCHANGED <<estimator_vars, call, caller_maps, multiscale_result, driver_calls>>

NextMultiscale == ScaleStep \/ MultiscaleReturn \/ MaximumOfMultiscale

SpecMultiscale == InitMultiscale /\ [][NextMultiscale]_vars

\* a call of compute_maximum_ts_image on the series
Maximum ==
  /\ ms_pc = "series"
  /\ maximum' = compute_maximum_ts_image(ts_image_results)
  /\ ms_pc' = "reduced"
  /\ UNCHANGED <<estimator_vars, call, caller_maps, multiscale_result, driver_calls,
                 ts_image_results>>

\* the k-th scale result of a series with the given ts images
ScaleResult(k, ts) ==
  [ts |-> ts,
   niter |-> [c \in MaximumGrid |-> 3 * k + c[2]],
   amplitude |-> [c \in MaximumGrid |-> 10 * k + ts[c]],
   scale |-> k,
   morphology |-> "Gaussian2D"]

Series ==
  UNION {{[k \in 1 .. n |-> ScaleResult(k, t[k])] : t \in [1 .. n -> [MaximumGrid -> 0 .. 2]]} :
         n \in 1 .. MaxScales}

InitMaximum ==
  /\ NoEstimator
  /\ call = <<>>
  /\ caller_maps = <<>>
  /\ multiscale_result = <<>>
  /\ driver_calls = <<>>
  /\ ms_pc = "series"
  /\ ts_image_results \in Series
  /\ maximum = <<>>

NextMaximum == Maximum

SpecMaximum == InitMaximum /\ [][NextMaximum]_vars
(***************************************************************************)
(* The properties.                                                         *)
(***************************************************************************)
Started == pc \in {"pool", "returned", "raised"} /\ REQUIRED \subseteq DOMAIN maps

Done(i) == i \in DOMAIN tasks /\ tasks[i] = "done"

WindowAt(array, i) == _extract_array(array, <<kernel.h, kernel.w>>, positions[i])

ModelAt(i) ==
  [h |-> kernel.h, w |-> kernel.w,
   d |-> [c \in Cells(kernel) |-> WindowAt(maps["exposure"], i).d[c] * kernel.d[c]]]

\* what the selected solver returns for position i
SolveAt(i) ==
  Solve(positions[i], maps["counts"], maps["exposure"], maps["background"], kernel, flux,
        parameters.method, parameters.rtol)

\* the result for position i came from the solver, not from the threshold branch
ViaSolver(i) ==
  /\ Done(i)
  /\ outcomes[i].kind # "tuple"
  /\ ~(parameters.threshold # None /\ flux = None)

PixelTs(o) == IF o.kind = "dict" THEN o.val["ts"] ELSE o.val[1]

PixelFlux(o) == IF o.kind = "dict" THEN o.val["flux"] ELSE o.val[2]

\* C1: in every pixel result the evaluator returns, under each method, ts and
\* flux have the same sign (negative, zero or positive) whenever both are finite.
C1_TsHasTheSignOfFlux ==
  \A i \in DOMAIN outcomes :
    (Done(i) /\ outcomes[i].kind \in {"dict", "tuple"}
       /\ IsFin(PixelTs(outcomes[i])) /\ IsFin(PixelFlux(outcomes[i])))
    => Sgn(PixelTs(outcomes[i]).v) = Sgn(PixelFlux(outcomes[i]).v)

\* the evaluator has returned a positive ts with a negative flux
C1_PositiveTsNegativeFlux ==
  \E i \in DOMAIN outcomes :
    /\ Done(i) /\ outcomes[i].kind = "tuple"
    /\ IsFin(PixelTs(outcomes[i])) /\ PixelTs(outcomes[i]).v > 0
    /\ IsFin(PixelFlux(outcomes[i])) /\ PixelFlux(outcomes[i]).v < 0

NoBackgroundOrExposure(c) == maps["background"].d[c] = 0 \/ maps["exposure"].d[c] <= 0

\* C2: after a complete run every pixel whose background is 0 or whose exposure
\* is <= 0 is NaN in every returned map, and no such pixel is ever handed to the
\* per-pixel evaluator.
C2_PixelsWithoutBackgroundOrExposure ==
  /\ pc = "returned" =>
       \A name \in DOMAIN result : \A c \in Cells(maps["counts"]) :
         NoBackgroundOrExposure(c) => IsNaN(result[name].d[c])
  /\ Started => \A i \in DOMAIN positions : ~NoBackgroundOrExposure(positions[i])

\* a run has returned for an image with an inner pixel without background and
\* another pixel that was fitted
C2_InnerPixelWithoutBackground ==
  /\ pc = "returned"
  /\ maps["background"].d[<<1, 1>>] = 0
  /\ maps["counts"].d[<<1, 1>>] > 0
  /\ IsFin(result["flux"].d[<<1, 2>>])

InProcessingMask(c) ==
  /\ mask_default(maps, kernel).d[c] # 0
  /\ "mask" \in DOMAIN maps => maps["mask"].d[c] # 0

\* C3: every map run returns has the shape of the counts image and is NaN at
\* every position where the processing mask (the default mask ANDed with the
\* user's mask) is false.
C3_MapsHaveCountsShapeAndNaNOffMask ==
  pc = "returned" =>
    \A name \in DOMAIN result :
      /\ SameShape(result[name], maps["counts"])
      /\ DOMAIN result[name].d = Cells(maps["counts"])
      /\ \A c \in Cells(maps["counts"]) : ~InProcessingMask(c) => IsNaN(result[name].d[c])

\* a run has returned with a pixel the user's mask alone excludes and a pixel
\* with a finite flux
C3_UserMaskedPixel ==
  /\ pc = "returned"
  /\ "mask" \in DOMAIN maps
  /\ \E c \in Cells(maps["counts"]) :
       mask_default(maps, kernel).d[c] # 0 /\ maps["mask"].d[c] = 0
  /\ \E c \in Cells(maps["counts"]) : IsFin(result["flux"].d[c])

\* the maps of the run that evaluates the positions one after the other
SequentialMaps ==
  ResultMaps(Which(which), positions,
             [i \in DOMAIN positions |-> Evaluate(positions[i])], maps["counts"])

\* C4: for every n_jobs and every order in which the workers take and finish
\* positions, each masked position is dispatched exactly once and the returned
\* maps are those of the sequential run, each result at its own coordinates.
C4_ScheduleIndependent ==
  /\ pc = "pool" =>
       \A i \in DOMAIN positions :
         dispatched[i] = (IF tasks[i] = "pending" THEN 0 ELSE 1)
  /\ pc = "returned" =>
       /\ \A c \in Cells(maps["counts"]) :
            Cardinality({i \in DOMAIN positions : positions[i] = c})
              = (IF InProcessingMask(c) THEN 1 ELSE 0)
       /\ \A i \in DOMAIN positions : dispatched[i] = 1
       /\ result = SequentialMaps

\* two workers have finished two positions with different results in the
\* reverse of their order, and run has returned
C4_FinishedOutOfOrder ==
  /\ pc = "returned"
  /\ parameters.n_jobs >= 2
  /\ Len(completed) >= 2
  /\ completed[1] > completed[2]
  /\ IsFin(result["ts"].d[positions[1]])
  /\ IsFin(result["ts"].d[positions[2]])
  /\ result["ts"].d[positions[1]] # result["ts"].d[positions[2]]

\* C5: with n_jobs = 1, run called again with the same inputs returns what the
\* first call returned; no call changes the input maps, the kernel or the
\* parameters.
C5_RunTwiceIdentical ==
  /\ (parameters # None /\ parameters.n_jobs = 1) =>
       \A i \in DOMAIN history : \A j \in DOMAIN history : history[i] = history[j]
  /\ maps = inputs.maps
  /\ kernel = inputs.kernel
  /\ pc \notin {"new", "ctor_raised"} => parameters = inputs.args

\* run has returned twice with n_jobs = 1 for maps that hold a user mask
C5_ReturnedTwice ==
  /\ Len(history) = 2
  /\ pc = "returned"
  /\ parameters.n_jobs = 1
  /\ "mask" \in DOMAIN maps
  /\ history[1].raised = "none"
  /\ \E c \in Cells(maps["counts"]) : IsFin(history[1].maps["ts"].d[c])

\* C6: under each of the three methods, a window whose counts sum to 0 is not
\* optimised: the amplitude is amplitude_min_total of the bounds estimator and
\* niter is 0.
C6_ZeroCountsShortCircuit ==
  Started =>
    \A i \in DOMAIN positions :
      (ViaSolver(i) /\ ArraySum(WindowAt(maps["counts"], i)) = 0)
      => SolveAt(i) =
           Fitted(_amplitude_bounds_cython(WindowAt(maps["counts"], i),
                                           WindowAt(maps["background"], i),
                                           ModelAt(i)).amplitude_min_total, 0)

\* root newton has returned a finite amplitude other than amplitude_min_total
\* for a window without counts
C6_NewtonFitsEmptyWindow ==
  /\ Started
  /\ parameters.method = "root newton"
  /\ \E i \in DOMAIN positions :
       /\ ViaSolver(i)
       /\ ArraySum(WindowAt(maps["counts"], i)) = 0
       /\ IsFin(SolveAt(i).amplitude)
       /\ SolveAt(i).amplitude #
            _amplitude_bounds_cython(WindowAt(maps["counts"], i),
                                     WindowAt(maps["background"], i),
                                     ModelAt(i)).amplitude_min_total

\* the solver has returned NaN as the amplitude of position i, in a run that
\* computes flux_err and flux_ul by one of the four combinations of methods
SolverFailed(i) ==
  /\ ViaSolver(i)
  /\ {"flux_err", "flux_ul"} \subseteq Which(which)
  /\ parameters.error_method \in {"covar", "conf"}
  /\ parameters.ul_method \in {"covar", "conf"}
  /\ LET fit == SolveAt(i) IN fit.raised = "none" /\ IsNaN(fit.amplitude)

\* C7: where the solver returns NaN the evaluator raises nothing and returns
\* NaN as ts, flux, flux_err and flux_ul, under each of the four combinations of
\* error_method and ul_method; the other pixels keep their results and the run
\* is not aborted.
C7_SolverFailureIsNaN ==
  /\ Started =>
       \A i \in DOMAIN positions :
         SolverFailed(i) =>
           /\ outcomes[i].raised = "none"
           /\ outcomes[i].kind = "dict"
           /\ {"ts", "flux", "flux_err", "flux_ul"} \subseteq DOMAIN outcomes[i].val
           /\ \A name \in {"ts", "flux", "flux_err", "flux_ul"} :
                IsNaN(outcomes[i].val[name])
  /\ (/\ Started /\ pc # "pool"
      /\ positions # <<>>
      /\ {"ts", "flux", "niter"} \subseteq Which(which)
      /\ \E i \in DOMAIN positions : SolverFailed(i)
      /\ \A i \in DOMAIN positions : SolverFailed(i) \/ outcomes[i].kind = "dict")
     => /\ pc = "returned"
        /\ \A i \in DOMAIN positions : \A name \in Which(which) \ {"sqrt_ts"} :
             result[name].d[positions[i]] = outcomes[i].val[name]

\* a run with the profile-likelihood error and upper limit has returned with a
\* pixel whose fit failed and a pixel with a finite flux, error and upper limit
C7_FailedPixelBesideFittedPixel ==
  /\ pc = "returned"
  /\ parameters.error_method = "conf"
  /\ parameters.ul_method = "conf"
  /\ Which(which) = ALL
  /\ \E i \in DOMAIN positions : SolverFailed(i)
  /\ \E j \in DOMAIN positions :
       /\ IsFin(result["flux"].d[positions[j]])
       /\ IsFin(result["flux_err"].d[positions[j]])
       /\ IsFin(result["flux_ul"].d[positions[j]])

\* C8: a method or an error_method outside the supported values makes the
\* constructor raise with no parameter stored and nothing run; every supported
\* combination constructs.
C8_ConstructorValidates ==
  pc # "new" =>
    IF /\ inputs.args.method \in {"root brentq", "root newton", "leastsq iter"}
       /\ inputs.args.error_method \in {"covar", "conf"}
      THEN pc # "ctor_raised" /\ parameters = inputs.args
    ELSE /\ pc = "ctor_raised"
         /\ err = "ValueError"
         /\ parameters = None
         /\ history = <<>>
         /\ positions = <<>>
         /\ result = <<>>

\* the constructor has raised for an error_method it does not support
C8_RejectedErrorMethod ==
  /\ pc = "ctor_raised"
  /\ inputs.args.method = "root brentq"
  /\ inputs.args.error_method = "bogus"

\* C9: without counts, background or exposure in the maps, run raises before any
\* position is dispatched and returns nothing.
C9_MissingMapRaises ==
  ~(REQUIRED \subseteq DOMAIN inputs.maps) =>
    /\ pc \in {"new", "ctor_raised", "idle", "raised"}
    /\ pc = "raised" => err = "KeyError"
    /\ positions = <<>>
    /\ \A i \in DOMAIN dispatched : dispatched[i] = 0
    /\ result = <<>>
    /\ \A n \in DOMAIN history : history[n].raised = "KeyError" /\ history[n].maps = <<>>

\* run has raised for maps that hold counts and background but no exposure
C9_RaisedWithoutExposure ==
  /\ pc = "raised"
  /\ DOMAIN maps = {"counts", "background"}
  /\ Len(history) >= 1

\* C10: an unsupported entry of `which` makes run fail before any pixel is
\* evaluated; every list of supported names, also one without ts, flux or niter,
\* completes and returns exactly the maps it names.
C10_WhichIsValidated ==
  /\ ~(Which(which) \subseteq ALL) =>
       /\ pc \notin {"pool", "returned"}
       /\ \A i \in DOMAIN dispatched : dispatched[i] = 0
  /\ (/\ Which(which) \subseteq ALL
      /\ Started /\ pc # "pool"
      /\ parameters.ul_method \in {"covar", "conf"}
      /\ positions # <<>>
      /\ \A i \in DOMAIN positions : outcomes[i].kind = "dict")
     => pc = "returned" /\ DOMAIN result = Which(which)

\* run has returned a map for a name it does not support
C10_UnsupportedNameReturned ==
  /\ pc = "returned"
  /\ "significance" \in DOMAIN result


\* the statistic of the seed flux at position i is below the threshold
BelowThreshold(i) ==
  /\ parameters.threshold # None
  /\ flux # None
  /\ XLt(XSub(XSum(WindowAt(c_0, i).d, Cells(WindowAt(c_0, i))),
              f_cash(flux.d[positions[i]], WindowAt(maps["counts"], i),
                     WindowAt(maps["background"], i), ModelAt(i))),
         parameters.threshold)

\* C11: where the statistic of the seed flux is below the threshold the evaluator
\* returns a result of the structure of a fitted one, with the seed as flux and
\* niter 0, and run stores its ts, flux and niter in the result maps.
C11_ThresholdResultStored ==
  /\ Started =>
       \A i \in DOMAIN positions :
         (Done(i) /\ BelowThreshold(i)) =>
           /\ outcomes[i].raised = "none"
           /\ outcomes[i].kind = "dict"
           /\ {"ts", "flux", "niter"} \subseteq DOMAIN outcomes[i].val
           /\ outcomes[i].val["flux"] = TimesFluxFactor(flux.d[positions[i]])
           /\ outcomes[i].val["niter"] = Num(0)
  /\ (pc \in {"returned", "raised"} /\ REQUIRED \subseteq DOMAIN maps
        /\ \E i \in DOMAIN positions : BelowThreshold(i)) =>
       /\ pc = "returned"
       /\ \A i \in DOMAIN positions :
            BelowThreshold(i) =>
              /\ result["flux"].d[positions[i]] = TimesFluxFactor(flux.d[positions[i]])
              /\ result["niter"].d[positions[i]] = Num(0)

\* every position was below the threshold and evaluated without an exception,
\* and run has raised TypeError on reading the results
C11_ThresholdResultBreaksRun ==
  /\ pc = "raised"
  /\ err = "TypeError"
  /\ parameters.method = "root newton"
  /\ positions # <<>>
  /\ \A i \in DOMAIN positions :
       BelowThreshold(i) /\ outcomes[i].raised = "none" /\ outcomes[i].kind = "tuple"

\* the 1-sigma covariance error of the amplitude fitted at position i
CovarSigmaAt(i) ==
  _compute_flux_err_covar(SolveAt(i).amplitude, WindowAt(maps["counts"], i),
                          WindowAt(maps["background"], i), ModelAt(i))

\* C12: with ul_method 'covar' the flux_ul of a pixel is flux + ul_sigma * sigma,
\* sigma the 1-sigma covariance error of the pixel, whatever error_method and
\* error_sigma are.
C12_CovarUpperLimitIgnoresErrorMethod ==
  Started =>
    \A i \in DOMAIN positions :
      (/\ ViaSolver(i)
       /\ outcomes[i].kind = "dict"
       /\ parameters.ul_method = "covar"
       /\ {"flux_err", "flux_ul"} \subseteq Which(which))
      => outcomes[i].val["flux_ul"] =
           XAdd(outcomes[i].val["flux"], XScale(CovarSigmaAt(i), parameters.ul_sigma))

\* with error_method 'conf' and ul_method 'covar' a pixel has a finite flux_ul
\* built on the profile error, which is not its covariance error
C12_UpperLimitFromProfileError ==
  /\ Started
  /\ parameters.error_method = "conf"
  /\ parameters.ul_method = "covar"
  /\ {"flux_err", "flux_ul"} \subseteq Which(which)
  /\ \E i \in DOMAIN positions :
       /\ ViaSolver(i)
       /\ outcomes[i].kind = "dict"
       /\ IsFin(outcomes[i].val["flux_ul"])
       /\ IsFin(CovarSigmaAt(i))
       /\ outcomes[i].val["flux_err"] # CovarSigmaAt(i)
       /\ outcomes[i].val["flux_ul"] =
            XAdd(outcomes[i].val["flux"],
                 XScale(outcomes[i].val["flux_err"], parameters.ul_sigma))
       /\ outcomes[i].val["flux_ul"] #
            XAdd(outcomes[i].val["flux"], XScale(CovarSigmaAt(i), parameters.ul_sigma))

\* C16: for every image and kernel shape (odd, even, 1x1) mask_default is true at
\* a pixel exactly if the pixel is at least floor(extent / 2) pixels away from
\* each edge of the image along each axis, its exposure is > 0 and its
\* background is not 0.
C16_DefaultMaskIsInteriorWithData ==
  Started =>
    \A c \in Cells(maps["exposure"]) :
      mask_default(maps, kernel).d[c] # 0
        <=> /\ kernel.h \div 2 <= c[1]
            /\ c[1] <= maps["exposure"].h - 1 - kernel.h \div 2
            /\ kernel.w \div 2 <= c[2]
            /\ c[2] <= maps["exposure"].w - 1 - kernel.w \div 2
            /\ maps["exposure"].d[c] > 0
            /\ maps["background"].d[c] # 0

\* with a 1x1 kernel and exposure and background everywhere, the default mask is
\* empty and run has raised for want of positions
C16_EmptyMaskForOnePixelKernel ==
  /\ pc = "raised"
  /\ err = "ValueError"
  /\ kernel.h = 1 /\ kernel.w = 1
  /\ "mask" \notin DOMAIN maps
  /\ \A c \in Cells(maps["exposure"]) :
       maps["exposure"].d[c] > 0 /\ maps["background"].d[c] # 0 /\ mask.d[c] = 0

\* what scipy's brentq does on the bracket of the window at position i
BrentqAt(i) ==
  LET counts_ == WindowAt(maps["counts"], i)
      background_ == WindowAt(maps["background"], i)
      bounds == _amplitude_bounds_cython(counts_, background_, ModelAt(i))
  IN brentq([name |-> "_f_cash_root_cython"], bounds.amplitude_min, bounds.amplitude_max,
            <<counts_, background_, ModelAt(i)>>, MAX_NITER, parameters.rtol)

\* amplitude_min_total of the window at position i
MinTotalAt(i) ==
  _amplitude_bounds_cython(WindowAt(maps["counts"], i), WindowAt(maps["background"], i),
                           ModelAt(i)).amplitude_min_total

\* C17: _root_amplitude_brentq never raises: where the bracket is invalid or the
\* search does not converge within MAX_NITER iterations it returns
\* (NaN, MAX_NITER), otherwise an amplitude >= amplitude_min_total and an
\* iteration count <= MAX_NITER.
C17_BrentqNeverRaises ==
  (Started /\ parameters.method = "root brentq") =>
    \A i \in DOMAIN positions :
      ViaSolver(i) =>
        LET fit == SolveAt(i)
        IN /\ fit.raised = "none"
           /\ IF ArraySum(WindowAt(maps["counts"], i)) > 0 /\ BrentqAt(i).status # "ok"
                THEN fit.amplitude = NaN /\ fit.niter = MAX_NITER
              ELSE /\ fit.amplitude.k \in {"fin", "inf"}
                   /\ ~XLt(fit.amplitude, MinTotalAt(i))
                   /\ 0 <= fit.niter /\ fit.niter <= MAX_NITER

\* root brentq has met an invalid bracket at one position, has given up there
\* with (NaN, MAX_NITER), and has converged at another position
C17_InvalidBracketBesideRoot ==
  /\ Started
  /\ parameters.method = "root brentq"
  /\ \E i \in DOMAIN positions :
       /\ ViaSolver(i)
       /\ ArraySum(WindowAt(maps["counts"], i)) > 0
       /\ BrentqAt(i).status = "ValueError"
       /\ SolveAt(i) = Fitted(NaN, MAX_NITER)
  /\ \E i \in DOMAIN positions :
       /\ ViaSolver(i)
       /\ BrentqAt(i).status = "ok"
       /\ IsFin(SolveAt(i).amplitude)
       /\ SolveAt(i).niter > 0

\* the window _ts_value extracts from array at position i lies inside the array,
\* spans [pos - floor(extent / 2), pos + floor(extent / 2)] on each axis and has
\* the kernel's shape
WindowIsCentred(array, i) ==
  LET win == WindowAt(array, i)
      y == positions[i][1] - kernel.h \div 2
      x == positions[i][2] - kernel.w \div 2
  IN /\ 0 <= y /\ positions[i][1] + kernel.h \div 2 <= array.h - 1
     /\ 0 <= x /\ positions[i][2] + kernel.w \div 2 <= array.w - 1
     /\ win.h = 2 * (kernel.h \div 2) + 1
     /\ win.w = 2 * (kernel.w \div 2) + 1
     /\ \A c \in Cells(win) : win.d[c] = array.d[<<y + c[1], x + c[2]>>]
     /\ SameShape(win, kernel)

\* the windows of counts, background, exposure and the null statistic at i
WindowsAreCentred(i) ==
  /\ WindowIsCentred(maps["counts"], i)
  /\ WindowIsCentred(maps["background"], i)
  /\ WindowIsCentred(maps["exposure"], i)
  /\ WindowIsCentred(c_0, i)

C20_AmplitudeKeepsModelNonNegative ==
  Started =>
    \A i \in DOMAIN positions :
      (ViaSolver(i) /\ SolveAt(i).raised = "none" /\ IsFin(SolveAt(i).amplitude)) =>
        /\ ~XLt(SolveAt(i).amplitude, MinTotalAt(i))
        /\ \A c \in Cells(kernel) :
             ~XLt(Predicted(SolveAt(i).amplitude, WindowAt(maps["background"], i).d[c],
                            ModelAt(i).d[c]),
                  Num(0))

\* with exposure everywhere, root newton has returned a finite amplitude below
\* amplitude_min_total, which makes the predicted counts negative at a pixel
C20_NewtonBelowMinTotal ==
  /\ Started
  /\ parameters.method = "root newton"
  /\ \A c \in Cells(maps["exposure"]) : maps["exposure"].d[c] > 0
  /\ \E i \in DOMAIN positions :
       /\ ViaSolver(i)
       /\ SolveAt(i).raised = "none"
       /\ IsFin(SolveAt(i).amplitude)
       /\ XLt(SolveAt(i).amplitude, MinTotalAt(i))
       /\ \E c \in Cells(kernel) :
            XLt(Predicted(SolveAt(i).amplitude, WindowAt(maps["background"], i).d[c],
                          ModelAt(i).d[c]),
                Num(0))

\* C18: the factor applied to the maps, to the kernel pixel size and to the
\* upsampling is the integer 1, 2, 4 or 8 that the thresholds on scale / BINSZ
\* give under 'auto', or the caller's value, whatever the morphology, and the
\* data are downsampled exactly when that factor is not 1.
C18_FactorFollowsThresholds ==
  \A k \in DOMAIN driver_calls :
    LET scale == call.scales[k]
        documented ==
          IF call.downsample = "auto"
            THEN IF scale < 5 * call.BINSZ THEN 1
                 ELSE IF scale < 10 * call.BINSZ THEN 2
                 ELSE IF scale < 40 * call.BINSZ THEN 4
                 ELSE 8
          ELSE int(call.downsample)
        used == driver_calls[k]
    IN /\ used.factor.factor = documented
       /\ used.factor.int
       /\ used.NEW_BINSZ = call.BINSZ * documented
       /\ used.upsample = documented
       /\ used.factor.downsampled <=> documented # 1

\* a shell run whose thresholds give 2: the maps are resampled by 2 / 2
C18_ShellFactorHalved ==
  /\ ms_pc = "returned"
  /\ call.morphology = "Shell2D"
  /\ call.downsample = "auto"
  /\ \E k \in DOMAIN driver_calls :
       /\ 5 * call.BINSZ <= call.scales[k] /\ call.scales[k] < 10 * call.BINSZ
       /\ driver_calls[k].factor.downsampled
       /\ driver_calls[k].factor.factor = 1
       /\ ~driver_calls[k].factor.int
       /\ driver_calls[k].NEW_BINSZ = call.BINSZ

\* C13: every map of every scale's result stack (ts, sqrt_ts, flux, flux_err,
\* flux_ul, niter) has the shape of the input counts image; when the scale was
\* downsampled each of them was upsampled and cropped.
C13_ResultMapsHaveInputShape ==
  \A k \in DOMAIN multiscale_result :
    \A name \in ALL :
      /\ multiscale_result[k][name].shape = call.shape
      /\ driver_calls[k].factor.downsampled => multiscale_result[k][name].upsampled

\* a downsampled scale came back with ts at the input shape and with niter and
\* flux_ul as the driver returned them
C13_NiterLeftDownsampled ==
  /\ ms_pc = "returned"
  /\ \E k \in DOMAIN multiscale_result :
       /\ driver_calls[k].factor.downsampled
       /\ driver_calls[k].factor.factor > 1
       /\ \A name \in {"ts", "sqrt_ts", "flux", "flux_err"} :
            multiscale_result[k][name].shape = call.shape
       /\ \A name \in {"niter", "flux_ul"} :
            /\ ~multiscale_result[k][name].upsampled
            /\ multiscale_result[k][name].shape = driver_calls[k].maps["counts"].shape
            /\ multiscale_result[k][name].shape # call.shape

\* how many times the caller's array called name was added into a map
TimesAdded(name, map) ==
  BagCardinality([t \in {t \in BagToSet(map.data) : t.of = name} |-> map.data[t]])

\* C15: with residual = True the background handed to the driver is, at every
\* scale, the caller's original background plus the model added exactly once.
C15_ModelAddedOncePerScale ==
  call.residual =>
    \A k \in DOMAIN driver_calls :
      /\ TimesAdded("background", driver_calls[k].maps["background"]) = 1
      /\ TimesAdded("model", driver_calls[k].maps["background"]) = 1

\* two scales at full resolution: the second fit gets the model twice, and the
\* caller's own background map has been changed
C15_ModelAccumulated ==
  /\ ms_pc = "returned"
  /\ call.residual
  /\ Len(driver_calls) = 2
  /\ ~driver_calls[1].factor.downsampled
  /\ ~driver_calls[2].factor.downsampled
  /\ TimesAdded("model", driver_calls[1].maps["background"]) = 1
  /\ TimesAdded("model", driver_calls[2].maps["background"]) = 2
  /\ TimesAdded("model", caller_maps["background"]) = 2

\* scale result k has the largest ts of the series at pixel c
IsMaximumAt(k, c) ==
  \A j \in DOMAIN ts_image_results : ts_image_results[j].ts[c] <= ts_image_results[k].ts[c]

\* scale result k has a strictly larger ts than every other one at every pixel
Dominates(k) ==
  \A c \in MaximumGrid : \A j \in DOMAIN ts_image_results \ {k} :
    ts_image_results[j].ts[c] < ts_image_results[k].ts[c]

\* C14: compute_maximum_ts_image returns maps ts, scale, niter and amplitude
\* whose every pixel carries the values of a scale with the maximum ts at that
\* pixel; when one scale dominates everywhere these are that scale's maps and
\* a uniform scale map.
C14_MaximumReturnsArgmaxMaps ==
  ms_pc = "reduced" =>
    /\ maximum.raised = "none"
    /\ {"ts", "scale", "niter", "amplitude"} \subseteq DOMAIN maximum.val
    /\ \A c \in MaximumGrid :
         \E k \in DOMAIN ts_image_results :
           /\ IsMaximumAt(k, c)
           /\ maximum.val.ts[c] = ts_image_results[k].ts[c]
           /\ maximum.val.scale[c] = ts_image_results[k].scale
           /\ maximum.val.niter[c] = ts_image_results[k].niter[c]
           /\ maximum.val.amplitude[c] = ts_image_results[k].amplitude[c]
    /\ \A k \in DOMAIN ts_image_results :
         Dominates(k) =>
           /\ maximum.val.ts = ts_image_results[k].ts
           /\ maximum.val.niter = ts_image_results[k].niter
           /\ maximum.val.amplitude = ts_image_results[k].amplitude
           /\ \A c \in MaximumGrid : maximum.val.scale[c] = ts_image_results[k].scale

\* a series of two in which the first scale dominates: the arrays of the
\* reduction are those of the first scale, and the call ends in a NameError
C14_DominantScaleRaises ==
  /\ ms_pc = "reduced"
  /\ Len(ts_image_results) = 2
  /\ Dominates(1)
  /\ MaximumArrays(ts_image_results).ts_max = ts_image_results[1].ts
  /\ MaximumArrays(ts_image_results).niter_max = ts_image_results[1].niter
  /\ \A c \in MaximumGrid : MaximumArrays(ts_image_results).scale_max[c] = 1
  /\ maximum.raised = "NameError"

\* C21: each solver returns the number of iterations it performed: a fit that
\* succeeded after k >= 1 iterations of its root finder has niter >= 1, and
\* niter = k under brentq, so niter = 0 marks only pixels that were not fitted.
C21_NiterCountsIterations ==
  Started =>
    \A i \in DOMAIN positions :
      (ViaSolver(i) /\ parameters.method \in {"root brentq", "root newton"}) =>
        LET search ==
              IF parameters.method = "root brentq" THEN BrentqAt(i)
              ELSE newton([name |-> "_f_cash_root_cython"], flux.d[positions[i]],
                          <<WindowAt(maps["counts"], i), WindowAt(maps["background"], i),
                            ModelAt(i)>>, MAX_NITER, parameters.rtol)
            zero_counts == parameters.method = "root brentq"
                             /\ ~(ArraySum(WindowAt(maps["counts"], i)) > 0)
        IN (search.status = "ok" /\ search.iterations >= 1 /\ ~zero_counts) =>
             /\ SolveAt(i).niter >= 1
             /\ parameters.method = "root brentq" => SolveAt(i).niter = search.iterations

\* a pixel fitted by newton in two or more secant steps is stored with niter 0
C21_NewtonReportsZero ==
  /\ pc = "returned"
  /\ parameters.method = "root newton"
  /\ \E i \in DOMAIN positions :
       LET search == newton([name |-> "_f_cash_root_cython"], flux.d[positions[i]],
                            <<WindowAt(maps["counts"], i), WindowAt(maps["background"], i),
                              ModelAt(i)>>, MAX_NITER, parameters.rtol)
       IN /\ ViaSolver(i)
          /\ ArraySum(WindowAt(maps["counts"], i)) > 0
          /\ search.status = "ok"
          /\ search.iterations >= 2
          /\ IsFin(result["flux"].d[positions[i]])
          /\ result["niter"].d[positions[i]] = Num(0)

\* C22: the least-squares solver never raises, also when an iterate is 0, and
\* for every maxiter it returns an amplitude not below amplitude_min_total with
\* niter the number of iterations performed, which is at most maxiter.
C22_LeastsqStopsAndCounts ==
  (Started /\ parameters.method = "leastsq iter") =>
    \A i \in DOMAIN positions :
      Done(i) =>
        \A maxiter \in {1, 2, MAX_NITER} :
          LET fit == _leastsq_iter_amplitude(WindowAt(maps["counts"], i),
                                             WindowAt(maps["background"], i), ModelAt(i),
                                             maxiter, parameters.rtol)
          IN /\ fit.raised = "none"
             /\ 0 <= fit.niter /\ fit.niter <= maxiter
             /\ ~XLt(fit.amplitude, MinTotalAt(i))

\* a window on which one iteration does not meet the tolerance: called with
\* maxiter = 1 the solver reports MAX_NITER iterations
C22_NiterExceedsMaxiter ==
  /\ pc = "returned"
  /\ parameters.method = "leastsq iter"
  /\ \E i \in DOMAIN positions :
       LET fit == _leastsq_iter_amplitude(WindowAt(maps["counts"], i),
                                          WindowAt(maps["background"], i), ModelAt(i),
                                          1, parameters.rtol)
       IN /\ Done(i)
          /\ ArraySum(WindowAt(maps["counts"], i)) > 0
          /\ fit.raised = "none"
          /\ fit.niter = MAX_NITER
          /\ IsFin(result["niter"].d[positions[i]])
          /\ result["niter"].d[positions[i]].v > 1

\* C23: after a downsampled scale niter was upsampled with interpolation order
\* 0 and ts, sqrt_ts, flux and flux_err with order 1, and no map of the stack
\* was left as the driver returned it.
C23_OrdersPairedWithNames ==
  \A k \in DOMAIN multiscale_result :
    driver_calls[k].factor.downsampled =>
      /\ \A name \in ALL : multiscale_result[k][name].upsampled
      /\ multiscale_result[k]["niter"].order = 0
      /\ \A name \in {"ts", "sqrt_ts", "flux", "flux_err"} :
           multiscale_result[k][name].order = 1

\* a downsampled scale whose flux_err took the order 0 and whose niter was not
\* upsampled
C23_FluxErrTookOrderOfNiter ==
  /\ ms_pc = "returned"
  /\ \E k \in DOMAIN multiscale_result :
       /\ driver_calls[k].factor.downsampled
       /\ \A name \in {"ts", "sqrt_ts", "flux"} :
            multiscale_result[k][name].upsampled /\ multiscale_result[k][name].order = 1
       /\ multiscale_result[k]["flux_err"].upsampled
       /\ multiscale_result[k]["flux_err"].order = 0
       /\ ~multiscale_result[k]["niter"].upsampled

\* C24: every result stack compute_ts_image_multiscale returns carries its scale
\* and morphology and exposes ts, niter and amplitude as
\* compute_maximum_ts_image reads them, so the reduction of the returned list
\* returns without raising.
C24_ListFeedsMaximum ==
  /\ ms_pc = "returned" =>
       \A k \in DOMAIN multiscale_result :
         {"ts", "niter", "amplitude", "scale", "morphology"} \subseteq DOMAIN multiscale_result[k]
  /\ ms_pc = "reduced" => maximum.raised = "none"

\* the list of a run over two scales was handed to the reduction; its stacks
\* hold ts and niter as items and have no amplitude, scale or morphology, and
\* the reduction has raised AttributeError
C24_StacksHaveNoAttributes ==
  /\ ms_pc = "reduced"
  /\ Len(multiscale_result) = 2
  /\ \A k \in DOMAIN ts_image_results :
       /\ ts_image_results[k].items = multiscale_result[k]
       /\ {"ts", "niter"} \subseteq DOMAIN multiscale_result[k]
       /\ {"amplitude", "scale", "morphology"} \cap DOMAIN multiscale_result[k] = {}
  /\ maximum.raised = "AttributeError"

\* C25: every per-pixel evaluation ends within MAX_NITER iterations of its
\* amplitude search and of each profile search, and the niter of every processed
\* pixel is an integer from 0 to MAX_NITER, for every method and every rtol.
C25_IterationsBounded ==
  /\ Started =>
       \A i \in DOMAIN positions :
         Done(i) =>
           LET args == <<WindowAt(maps["counts"], i), WindowAt(maps["background"], i),
                         ModelAt(i)>>
               fit == SolveAt(i)
               profile(sigma) ==
                 brentq([name |-> "ts_diff",
                         c_1 |-> f_cash(fit.amplitude, args[1], args[2], args[3]),
                         error_sigma |-> sigma],
                        fit.amplitude, XAdd(fit.amplitude, Num(10000 * Q)), args, MAX_NITER, 1)
           IN /\ outcomes[i].kind = "dict" =>
                   /\ IsFin(outcomes[i].val["niter"])
                   /\ outcomes[i].val["niter"].v \in 0 .. MAX_NITER
              /\ outcomes[i].kind = "tuple" => outcomes[i].val[3].v \in 0 .. MAX_NITER
              /\ parameters.method = "root brentq" => BrentqAt(i).iterations \in 0 .. MAX_NITER
              /\ (parameters.method = "root newton" /\ flux # None) =>
                   newton([name |-> "_f_cash_root_cython"], flux.d[positions[i]], args,
                          MAX_NITER, parameters.rtol).iterations \in 0 .. MAX_NITER
              /\ (ViaSolver(i) /\ fit.raised = "none") =>
                   /\ fit.niter \in 0 .. MAX_NITER
                   /\ profile(parameters.error_sigma).iterations \in 0 .. MAX_NITER
                   /\ profile(parameters.ul_sigma).iterations \in 0 .. MAX_NITER
  /\ pc = "returned" =>
       \A i \in DOMAIN positions :
         /\ IsFin(result["niter"].d[positions[i]])
         /\ result["niter"].d[positions[i]].v \in 0 .. MAX_NITER

\* a run has returned with a pixel whose newton search gave up at the limit
\* and is stored with niter MAX_NITER
C25_SearchStoppedAtLimit ==
  /\ pc = "returned"
  /\ parameters.method = "root newton"
  /\ \E i \in DOMAIN positions :
       /\ newton([name |-> "_f_cash_root_cython"], flux.d[positions[i]],
                 <<WindowAt(maps["counts"], i), WindowAt(maps["background"], i), ModelAt(i)>>,
                 MAX_NITER, parameters.rtol).status = "RuntimeError"
       /\ result["niter"].d[positions[i]] = Num(MAX_NITER)

C27_CallerMapsUnchanged ==
  \A name \in DOMAIN caller_maps :
    /\ caller_maps[name].shape = call.shape
    /\ caller_maps[name].data = Original(name)

\* a residual run over one scale at full resolution has returned: the caller's
\* background now holds the model as well, the other maps are as they were
C27_BackgroundOverwritten ==
  /\ ms_pc = "returned"
  /\ call.residual
  /\ Len(driver_calls) = 1
  /\ ~driver_calls[1].factor.downsampled
  /\ caller_maps["background"].data = Original("background") (+) Original("model")
  /\ \A name \in {"counts", "exposure", "model"} : caller_maps[name].data = Original(name)

\* C28: when no pixel passes the processing mask, run dispatches nothing,
\* raises nothing and returns every requested map filled with NaN.
C28_EmptyMaskGivesNaNMaps ==
  (/\ pc \in {"returned", "raised"}
   /\ REQUIRED \subseteq DOMAIN maps
   /\ mask # <<>>
   /\ \A c \in Cells(mask) : mask.d[c] = 0)
  => /\ pc = "returned"
     /\ positions = <<>>
     /\ completed = <<>>
     /\ DOMAIN result = Which(which)
     /\ \A name \in DOMAIN result : \A c \in Cells(maps["counts"]) : IsNaN(result[name].d[c])

\* the image has fewer rows than the kernel: the mask is empty, nothing was
\* dispatched and run has raised ValueError
C28_ImageSmallerThanKernel ==
  /\ pc = "raised"
  /\ err = "ValueError"
  /\ REQUIRED \subseteq DOMAIN maps
  /\ kernel.h > maps["counts"].h
  /\ mask # <<>>
  /\ \A c \in Cells(mask) : mask.d[c] = 0
  /\ positions = <<>>
  /\ completed = <<>>

\* C29: with a threshold the evaluator has a default-flux seed at every masked
\* position under each of the three methods, and the threshold comparison is
\* evaluated without raising.
C29_ThresholdWithEveryMethod ==
  (Started /\ parameters.threshold # None) =>
    /\ positions # <<>> => flux # None
    /\ \A i \in DOMAIN positions :
         Done(i) => outcomes[i].raised # "TypeError"

\* a brentq run with a threshold: there is no seed, the first evaluation raised
\* TypeError on flux[position] and run has raised it
C29_NoSeedForBrentq ==
  /\ pc = "raised"
  /\ err = "TypeError"
  /\ parameters.method = "root brentq"
  /\ parameters.threshold # None
  /\ flux = None
  /\ positions # <<>>
  /\ \A i \in DOMAIN positions : Done(i) => outcomes[i].raised = "TypeError"
  /\ \E i \in DOMAIN positions : Done(i)

\* C30: when `which` names flux_ul and not flux_err, under either ul_method the
\* evaluator returns a result with flux_ul for every masked pixel and run
\* returns with the flux_ul map filled.
C30_UpperLimitWithoutError ==
  (/\ Started
   /\ "flux_ul" \in Which(which) /\ "flux_err" \notin Which(which)
   /\ {"ts", "flux", "niter"} \subseteq Which(which)
   /\ parameters.ul_method \in {"covar", "conf"})
  => /\ \A i \in DOMAIN positions :
          Done(i) => /\ outcomes[i].raised = "none"
                     /\ outcomes[i].kind = "dict"
                     /\ "flux_ul" \in DOMAIN outcomes[i].val
     /\ pc # "raised"
     /\ pc = "returned" => "flux_ul" \in DOMAIN result

\* flux_ul asked for without flux_err under ul_method 'covar': every evaluation
\* raised KeyError and so did run
C30_CovarNeedsFluxErr ==
  /\ pc = "raised"
  /\ err = "KeyError"
  /\ parameters.ul_method = "covar"
  /\ "flux_ul" \in Which(which) /\ "flux_err" \notin Which(which)
  /\ {"ts", "flux", "niter"} \subseteq Which(which)
  /\ positions # <<>>
  /\ \A i \in DOMAIN positions : outcomes[i].raised = "KeyError"
====
